---- MODULE Spec2Model ----
(***************************************************************************)
(* Model of the prestack characterization tool: Survey.validation and      *)
(* Survey.merge (Main.py), and the attribute dispatcher of AVOModule       *)
(* (AVO.py) and of the function module avo.py.                             *)
(*                                                                         *)
(* Trace and list positions that the code counts from 0 (merge_index,      *)
(* stack_index, trace_index, list.index) are counted from 0 here too;      *)
(* Python lists are TLA+ sequences, read through At(list, i).              *)
(***************************************************************************)
EXTENDS Integers, Sequences, FiniteSets, TLC

\* ------------------------------------------------------------------ bounds
MaxStacks == 2     \* angle stacks in gathers_path
MaxTraces == 4     \* traces (inlines x crosslines) of one stack
MaxNs == 2         \* samples per trace
MaxAngle == 2      \* largest angle value of an explicit angle_list
MaxWorkers == 2    \* processes of the Pool (cpu count)
MaxFaults == 1     \* tasks that raise in one dispatcher run
MaxStep == 2       \* largest increment between consecutive line numbers
MaxScalar == 2     \* largest magnitude of a coordinate scalar (bytes 71-72)
MaxCoef == 2       \* largest magnitude of the slope and intercept of a synthetic gather
MaxLen == 2        \* longest text handed to step_validation
MaxKeys == 3       \* trace-header keys compared by the SEG-Y format validation

VARIABLES
    \* Survey attributes (Main.py, Survey.__init__)
    gathers_path,       \* sequence of paths, each [exists, ext]
    wells_path,         \* sequence of paths, each [exists, ext]
    angle_list,         \* sequence of angles
    cube_validation,
    wells_validation,
    \* the files
    disk,               \* disk[f]: the SEG-Y volume behind gathers_path[f], or NoFile
    merged,             \* the volume at merge_path, or NoFile
    \* Survey.merge: position in the method and its locals
    mpc,                \* "idle" | "loop" | "returned" | "raised"
    il_i, xl_i, off_i,  \* positions (from 1) of the three nested for loops
    merge_index,
    stack_index,
    merge_ret,          \* what merge returned: "none" | "success" | "not_suitable"
    opened,             \* positions (from 0) of gathers_path opened so far
    write_log,          \* merge indices whose trace was assigned, in order
    \* the attribute dispatcher (AVO.py, avo.py)
    impl,               \* "AVOModule" (AVO.py) | "avo" (avo.py)
    modname,            \* __name__ of the module holding the dispatcher
    inlines, crosslines,
    nworkers,           \* processes of the Pool
    tasks,              \* the work items handed to Pool.map, in generator order
    tstage,             \* tstage[n]: steps task n has completed (0: not yet taken)
    failed,             \* the tasks that raised
    vols,               \* vols[path][t]: trace t of the attribute volume at path
    wlog,               \* wlog[path][t]: the tasks that assigned trace t, in order
    dpc,                \* "idle" | "running" | "returned"
    dret,               \* what the dispatcher's caller receives
    \* AVOModule.files_from_np
    vhdr,               \* vhdr[path][t]: trace header t of the attribute volume at path
    fpc,                \* "idle" | "loop" | "returned" | "raised"
    trace_counter,
    \* Survey.cube_data_organization
    basemap_dataframe,  \* sequence of rows [iline, xline, utmx, utmy]
    sample_interval,    \* WiggleModule.sample_interval
    samples_per_trace,  \* WiggleModule.samples_per_trace
    cdo_ret,            \* what cube_data_organization returned last
    \* a call of one of the tool's functions
    call,               \* the function called and its arguments
    ret,                \* [kind |-> "pending"] until the call has returned
    \* one worker task, statement by statement
    hn,                 \* the task (position in tasks) the worker runs
    hpc,                \* position in the task's program; 0 once it has raised
    handles,            \* the SEG-Y handles the task holds open, each [file, mode]
    hlog                \* the opens, trace writes and closes of the task, in order

surveyVars == <<gathers_path, wells_path, angle_list, cube_validation, wells_validation>>
fileVars == <<disk, merged>>
mergeVars == <<mpc, il_i, xl_i, off_i, merge_index, stack_index, merge_ret, opened, write_log>>
dispVars == <<impl, modname, inlines, crosslines, nworkers, tasks, tstage, failed,
              vols, wlog, dpc, dret>>
filesVars == <<vhdr, fpc, trace_counter>>
cubeVars == <<basemap_dataframe, sample_interval, samples_per_trace, cdo_ret>>
fnVars == <<call, ret>>
taskVars == <<hn, hpc, handles, hlog>>
vars == <<surveyVars, fileVars, mergeVars, dispVars, filesVars, cubeVars, fnVars, taskVars>>

\* ------------------------------------------------------------ Python lists
At(list, i) == list[i + 1]

Range(list) == {list[i] : i \in DOMAIN list}

ListIndexLast(list, x) ==
    (CHOOSE i \in DOMAIN list : list[i] = x /\ \A j \in DOMAIN list : list[j] = x => j <= i) - 1

\* list.index(x): the first position (from 0) holding x
ListIndex(list, x) ==
    (CHOOSE i \in DOMAIN list : list[i] = x /\ \A j \in DOMAIN list : list[j] = x => i <= j) - 1

\* ------------------------------------------------------------------ paths
Exts == {".sgy", ".SEGY", ".txt"}

PathKinds ==
    {[exists |-> TRUE, ext |-> e] : e \in Exts} \cup {[exists |-> FALSE, ext |-> ".sgy"]}

\* str.lower() on the extensions above
Lower(ext) == IF ext = ".SEGY" THEN ".segy" ELSE ext

\* ------------------------------------------------------------ SEG-Y volumes
NoFile == [kind |-> "nofile"]

\* a grid of a inlines and b crosslines
Grids == {g \in (1..MaxTraces) \X (1..MaxTraces) : g[1] * g[2] <= MaxTraces}

Ilines(g) == [i \in 1..g[1] |-> 100 + i]
Xlines(g) == [j \in 1..g[2] |-> 200 + j]

\* The trace header of trace t of the stack at position f (from 0): the fields
\* Survey.merge reads (bytes 1, 5, 9, 21, 25, 71, 115, 117, 181, 185) and the
\* three it sets. Stacks of one geometry may still differ in their other fields.
SrcHeader(f, t, il, xl, ns) ==
    [tracl |-> t + 1, tracr |-> t + 1, fldr |-> f + 1, cdp |-> t + 1, cdpt |-> 1,
     offset |-> 0, scalco |-> 0 - (f + 1), ns |-> ns, dt |-> 4000,
     cdpx |-> 1000 * (f + 1) + t, cdpy |-> 2000 * (f + 1) + t,
     iline |-> il, xline |-> xl]

ZeroHeader ==
    [tracl |-> 0, tracr |-> 0, fldr |-> 0, cdp |-> 0, cdpt |-> 0,
     offset |-> 0, scalco |-> 0, ns |-> 0, dt |-> 0,
     cdpx |-> 0, cdpy |-> 0, iline |-> 0, xline |-> 0]

\* sample s of trace t of stack f
Amp(f, t, s) == 100 * (f + 1) + 10 * t + s

\* the angle stack at position f with grid g and ns samples per trace
StackFile(f, g, ns) ==
    [kind |-> "segy",
     ilines |-> Ilines(g), xlines |-> Xlines(g), offsets |-> <<0>>, samples |-> ns,
     header |-> [t \in 0..(g[1] * g[2] - 1) |->
                   SrcHeader(f, t, Ilines(g)[(t \div g[2]) + 1], Xlines(g)[(t % g[2]) + 1], ns)],
     trace |-> [t \in 0..(g[1] * g[2] - 1) |-> [s \in 1..ns |-> Amp(f, t, s)]]]

TraceCount(vol) == Cardinality(DOMAIN vol.trace)

\* ------------------------------------------------------- Survey.validation
ExtIsSegy(ext) == Lower(ext) = ".sgy" \/ Lower(ext) = ".segy"

ExtIsTxt(ext) == Lower(ext) = ".txt"

RECURSIVE CubeLoopNoReset(_, _, _)
CubeLoopNoReset(paths, i, cv) ==
    IF i > Len(paths) THEN [cube_validation |-> cv, returned |-> FALSE]
    ELSE IF paths[i].exists /\ ExtIsSegy(paths[i].ext)
         THEN CubeLoopNoReset(paths, i + 1, TRUE)
         ELSE CubeLoopNoReset(paths, i + 1, cv)

\* the for loop over gathers_path: cv is cube_validation before path i is examined
RECURSIVE CubeLoop(_, _, _)
CubeLoop(paths, i, cv) ==
    IF i > Len(paths) THEN [cube_validation |-> cv, returned |-> FALSE]
    ELSE IF paths[i].exists
         THEN IF ExtIsSegy(paths[i].ext)
              THEN CubeLoop(paths, i + 1, TRUE)
              ELSE [cube_validation |-> FALSE, returned |-> TRUE]
         ELSE [cube_validation |-> FALSE, returned |-> TRUE]

\* the for loop over wells_path
RECURSIVE WellsLoop(_, _, _)
WellsLoop(paths, i, wv) ==
    IF i > Len(paths) THEN [wells_validation |-> wv, returned |-> FALSE]
    ELSE IF paths[i].exists
         THEN IF ExtIsTxt(paths[i].ext)
              THEN WellsLoop(paths, i + 1, TRUE)
              ELSE [wells_validation |-> FALSE, returned |-> TRUE]
         ELSE [wells_validation |-> FALSE, returned |-> TRUE]

\* Survey.validation: the two flags after the call
Validation(gp, wp, cv, wv) ==
    LET c == CubeLoop(gp, 1, cv)
    IN  IF c.returned
        THEN [cube_validation |-> c.cube_validation, wells_validation |-> wv]
        ELSE [cube_validation |-> c.cube_validation,
              wells_validation |-> WellsLoop(wp, 1, wv).wells_validation]

\* one call of Survey.validation on the paths as they are on disk now
SurveyValidation ==
    /\ call.fn = "validation"
    /\ mpc = "idle"
    /\ LET v == Validation(gathers_path, wells_path, cube_validation, wells_validation)
           c == CubeLoop(gathers_path, 1, cube_validation)
           w == WellsLoop(wells_path, 1, wells_validation)
       IN  /\ cube_validation' = v.cube_validation
           /\ wells_validation' = v.wells_validation
           /\ ret' = [kind |-> "returned",
                      value |-> IF c.returned \/ w.returned THEN "message" ELSE "None"]
    /\ UNCHANGED <<gathers_path, wells_path, angle_list, fileVars, mergeVars, dispVars,
                   filesVars, cubeVars, call>>
    /\ UNCHANGED taskVars

\* between two calls a file of one of the two lists is created or deleted
FileChange ==
    /\ call.fn = "validation"
    /\ ret.kind = "returned"
    /\ \/ \E f \in DOMAIN gathers_path :
            /\ gathers_path' = [gathers_path EXCEPT ![f].exists = ~@]
            /\ wells_path' = wells_path
       \/ \E f \in DOMAIN wells_path :
            /\ wells_path' = [wells_path EXCEPT ![f].exists = ~@]
            /\ gathers_path' = gathers_path
    /\ ret' = [kind |-> "pending"]
    /\ UNCHANGED <<angle_list, cube_validation, wells_validation, fileVars, mergeVars,
                   dispVars, filesVars, cubeVars, call>>
    /\ UNCHANGED taskVars

NextVal == SurveyValidation \/ FileChange

\* ------------------------------------------------------------ Survey.merge
\* segyio.create(merge_path, spec): spec is taken from the first stack f and the
\* angle list; every header and every trace starts zeroed
CreateMerged(f, offsts) ==
    LET n == Len(f.ilines) * Len(f.xlines) * Len(offsts)
    IN  [kind |-> "segy",
         ilines |-> f.ilines, xlines |-> f.xlines, offsets |-> offsts, samples |-> f.samples,
         header |-> [t \in 0..(n - 1) |-> ZeroHeader],
         trace |-> [t \in 0..(n - 1) |-> [s \in 1..f.samples |-> 0]]]

MergedHeaderFromMergeIndex(f, si, mi, offset, il, xl) ==
    LET h == f.header[IF mi \in DOMAIN f.header THEN mi ELSE si]
    IN  [tracl |-> h.tracl, tracr |-> h.tracr, fldr |-> h.fldr, cdp |-> h.cdp,
         cdpt |-> h.cdpt, offset |-> offset, scalco |-> h.scalco, ns |-> h.ns,
         dt |-> h.dt, cdpx |-> h.cdpx, cdpy |-> h.cdpy, iline |-> il, xline |-> xl]

\* the header dictionary assigned to s.header[merge_index]: eleven fields of
\* f.header[stack_index], the offset, the inline and the crossline
MergedHeader(f, si, mi, offset, il, xl) ==
    LET h == f.header[si]
    IN  [tracl |-> h.tracl, tracr |-> h.tracr, fldr |-> h.fldr, cdp |-> h.cdp,
         cdpt |-> h.cdpt, offset |-> offset, scalco |-> h.scalco, ns |-> h.ns,
         dt |-> h.dt, cdpx |-> h.cdpx, cdpy |-> h.cdpy, iline |-> il, xline |-> xl]

FileIndexLast(offset) == ListIndexLast(angle_list, offset)

\* file_index = self.angle_list.index(offset)
FileIndex(offset) == ListIndex(angle_list, offset)

NextMergeIndexPerLocation(mi, oi, noff) == IF oi = noff THEN mi + 1 ELSE mi

\* merge_index += 1, at the end of the innermost loop body
NextMergeIndex(mi, oi, noff) == mi + 1

\* validation, then either the failure message or segyio.open of the first stack
\* and segyio.create of the merged volume
MergeBegin ==
    /\ mpc = "idle"
    /\ LET v == Validation(gathers_path, wells_path, cube_validation, wells_validation)
       IN  /\ cube_validation' = v.cube_validation
           /\ wells_validation' = v.wells_validation
           /\ IF v.cube_validation = TRUE
              THEN IF disk[1] # NoFile
                   THEN /\ merged' = CreateMerged(disk[1], angle_list)
                        /\ opened' = {0}
                        /\ mpc' = "loop"
                        /\ merge_ret' = merge_ret
                   ELSE \* segyio.open of a file that is not there raises
                        /\ mpc' = "raised"
                        /\ UNCHANGED <<merged, opened, merge_ret>>
              ELSE /\ mpc' = "returned"
                   /\ merge_ret' = "not_suitable"
                   /\ UNCHANGED <<merged, opened>>
    /\ UNCHANGED <<gathers_path, wells_path, angle_list, disk,
                   il_i, xl_i, off_i, merge_index, stack_index, write_log, dispVars, filesVars, cubeVars, fnVars>>
    /\ UNCHANGED taskVars

LoopDone == il_i > Len(merged.ilines)

\* one pass of the innermost loop body (for offset in spec.offsets)
MergeIter ==
    /\ mpc = "loop"
    /\ ~LoopDone
    /\ LET f == disk[1]
           il == merged.ilines[il_i]
           xl == merged.xlines[xl_i]
           offset == merged.offsets[off_i]
           noff == Len(merged.offsets)
           withHeader ==
               [merged EXCEPT !.header[merge_index] =
                   MergedHeader(f, stack_index, merge_index, offset, il, xl)]
           file_index == FileIndex(offset)
           readable == /\ file_index < Len(gathers_path)
                       /\ disk[file_index + 1] # NoFile
                       /\ stack_index \in DOMAIN disk[file_index + 1].trace
           lastOff == off_i = noff
           lastXl == xl_i = Len(merged.xlines)
       IN  IF readable /\ Len(disk[file_index + 1].trace[stack_index]) >= merged.samples
           THEN \* s.trace[merge_index] = stack.trace[stack_index]; a longer
                \* trace is cut to the merged volume's sample count
                /\ merged' = [withHeader EXCEPT !.trace[merge_index] =
                                 SubSeq(disk[file_index + 1].trace[stack_index], 1, merged.samples)]
                /\ opened' = opened \cup {file_index}
                /\ write_log' = Append(write_log, merge_index)
                /\ merge_index' = NextMergeIndex(merge_index, off_i, noff)
                /\ stack_index' = IF lastOff THEN stack_index + 1 ELSE stack_index
                /\ off_i' = IF lastOff THEN 1 ELSE off_i + 1
                /\ xl_i' = IF lastOff THEN (IF lastXl THEN 1 ELSE xl_i + 1) ELSE xl_i
                /\ il_i' = IF lastOff /\ lastXl THEN il_i + 1 ELSE il_i
                /\ UNCHANGED <<mpc, merge_ret>>
           ELSE \* IndexError (no such path, no such trace) or ValueError (trace
                \* too short): the header is written, the trace is not
                /\ merged' = withHeader
                /\ opened' = IF file_index < Len(gathers_path) /\ disk[file_index + 1] # NoFile
                             THEN opened \cup {file_index} ELSE opened
                /\ mpc' = "raised"
                /\ UNCHANGED <<write_log, merge_index, stack_index, off_i, xl_i, il_i, merge_ret>>
    /\ UNCHANGED <<surveyVars, disk, dispVars, filesVars, cubeVars, fnVars>>
    /\ UNCHANGED taskVars

\* the loops are over: the files are closed and the success message returned
MergeReturn ==
    /\ mpc = "loop"
    /\ LoopDone
    /\ mpc' = "returned"
    /\ merge_ret' = "success"
    /\ UNCHANGED <<surveyVars, fileVars, il_i, xl_i, off_i, merge_index, stack_index,
                   opened, write_log, dispVars, filesVars, cubeVars, fnVars>>
    /\ UNCHANGED taskVars

\* ------------------------------------------------- the attribute dispatcher
merge_path == "merge.sgy"
gradient_path == "gradient.sgy"
intercept_path == "intercept.sgy"
rvalue_path == "rvalue.sgy"
pvalue_path == "pvalue.sgy"
stderr_path == "stderr.sgy"

AttrPaths == {gradient_path, intercept_path, rvalue_path, pvalue_path, stderr_path}

NextTraceIndexStuck(trace_index) == trace_index

\* trace_index += 1 (index += 1)
NextTraceIndex(trace_index) == trace_index + 1

\* the list AVOModule.index_generator yields for one location
IndexGeneratorItem(il, xl, trace_index) ==
    <<merge_path, gradient_path, intercept_path, rvalue_path, pvalue_path, stderr_path,
      angle_list, il, xl, trace_index>>

\* the list input_generator yields for one location
InputGeneratorItem(il, xl, index) ==
    <<merge_path, angle_list, il, xl, index,
      gradient_path, intercept_path, rvalue_path, pvalue_path, stderr_path>>

\* the two nested for loops of index_generator and of input_generator, from
\* inline position i and crossline position j on
RECURSIVE GeneratorFrom(_, _, _, _)
GeneratorFrom(m, i, j, trace_index) ==
    IF i > Len(inlines) THEN <<>>
    ELSE IF j > Len(crosslines) THEN GeneratorFrom(m, i + 1, 1, trace_index)
    ELSE <<IF m = "AVOModule"
           THEN IndexGeneratorItem(inlines[i], crosslines[j], trace_index)
           ELSE InputGeneratorItem(inlines[i], crosslines[j], trace_index)>>
         \o GeneratorFrom(m, i, j + 1, NextTraceIndex(trace_index))

Generator(m) == GeneratorFrom(m, 1, 1, 0)

UnpackIndexArgsShifted(a) ==
    [merge_path |-> a[2], gradient_file |-> a[1], intercept_file |-> a[3],
     rvalue_file |-> a[4], pvalue_file |-> a[5], stderr_file |-> a[6],
     angle_list |-> a[7], iline_number |-> a[8], xline_number |-> a[9], index |-> a[10]]

\* the locals attributes_computation unpacks from index_args
UnpackIndexArgs(a) ==
    [merge_path |-> a[1], gradient_file |-> a[2], intercept_file |-> a[3],
     rvalue_file |-> a[4], pvalue_file |-> a[5], stderr_file |-> a[6],
     angle_list |-> a[7], iline_number |-> a[8], xline_number |-> a[9], index |-> a[10]]

\* the locals AVO_attributes_computation_2 reads from generator_list[0..9]
UnpackGeneratorList(a) ==
    [merge_path |-> a[1], angle_list |-> a[2], iline_number |-> a[3],
     xline_number |-> a[4], index |-> a[5], intercept_file |-> a[6],
     gradient_file |-> a[7], rvalue_file |-> a[8], pvalue_file |-> a[9],
     stderr_file |-> a[10]]

Unpack(m, a) == IF m = "AVOModule" THEN UnpackIndexArgs(a) ELSE UnpackGeneratorList(a)

\* the array a task holds for one regression output at its location
\* (a sample value that stands for the quantity, the location and the sample)
ResultArray(quantity, il, xl) ==
    LET code == CASE quantity = "slope" -> 1
                  [] quantity = "intercept" -> 2
                  [] quantity = "rvalue" -> 3
                  [] quantity = "pvalue" -> 4
                  [] quantity = "stderr" -> 5
    IN  [s \in 1..MaxNs |-> ((code * 1000 + il) * 1000 + xl) * 10 + s]

\* a trace of np.zeros
ZeroTrace == [s \in 1..MaxNs |-> 0]

\* gradient[row], intercept[row], rvalue[row], pvalue[row], stderr[row] =
\* stats.linregress(sins, amp[row]), which returns (slope, intercept, rvalue,
\* pvalue, stderr)
Regression(il, xl) ==
    [gradient |-> ResultArray("slope", il, xl),
     intercept |-> ResultArray("intercept", il, xl),
     rvalue |-> ResultArray("rvalue", il, xl),
     pvalue |-> ResultArray("pvalue", il, xl),
     stderr |-> ResultArray("stderr", il, xl)]

\* the five "with segyio.open(..., 'r+')" blocks of a task, in program order
WritePlan(m, a) ==
    LET u == Unpack(m, a)
        r == Regression(u.iline_number, u.xline_number)
    IN  <<[file |-> u.gradient_file, data |-> r.gradient],
          [file |-> u.intercept_file, data |-> r.intercept],
          [file |-> u.rvalue_file, data |-> r.rvalue],
          [file |-> u.pvalue_file, data |-> r.pvalue],
          [file |-> u.stderr_file, data |-> r.stderr]>>

TraceAssignFrom(traces, t, data) ==
    [u \in DOMAIN traces |-> IF u >= t THEN data ELSE traces[u]]

\* segy.trace[t] = data: the samples of trace t are replaced, nothing else
TraceAssign(traces, t, data) == [traces EXCEPT ![t] = data]

\* if __name__ == "__main__" (AVO.py), if __name__ == "avo" (avo.py)
PoolGuard(m, name) == IF m = "AVOModule" THEN name = "__main__" ELSE name = "avo"

\* What the caller of the dispatcher receives: the kind of outcome and the
\* failed locations it is told of. AVOModule returns its success message and
\* avo_storeputation returns None; an exception that leaves Pool.map is the
\* first one a task raised and names no location.
Outcome(kind) == [kind |-> kind, failed |-> {}]

ReturnValue(m) == IF m = "AVOModule" THEN Outcome("success") ELSE Outcome("None")

InFlight == {n \in DOMAIN tstage : tstage[n] \in 1..6 /\ n \notin failed}

Finished(n) == tstage[n] = 7 \/ n \in failed

\* multiprocess_attributes_computation / avo_storeputation up to Pool.map: the
\* generator is created, and under the guard Pool.map turns it into the task list
DispatchBegin ==
    /\ dpc = "idle"
    /\ IF PoolGuard(impl, modname)
       THEN /\ tasks' = Generator(impl)
            /\ tstage' = [n \in 1..Len(Generator(impl)) |-> 0]
            /\ dpc' = "running"
            /\ dret' = dret
       ELSE /\ dpc' = "returned"
            /\ dret' = ReturnValue(impl)
            /\ UNCHANGED <<tasks, tstage>>
    /\ UNCHANGED <<surveyVars, fileVars, mergeVars, impl, modname, inlines, crosslines,
                   nworkers, failed, vols, wlog, filesVars, cubeVars, fnVars>>
    /\ UNCHANGED taskVars

\* a free worker process takes the next task of the queue (chunksize = 1)
TaskPick(n) ==
    /\ dpc = "running"
    /\ tstage[n] = 0
    /\ \A u \in 1..(n - 1) : tstage[u] # 0
    /\ Cardinality(InFlight) < nworkers
    /\ tstage' = [tstage EXCEPT ![n] = 1]
    /\ UNCHANGED <<surveyVars, fileVars, mergeVars, impl, modname, inlines, crosslines,
                   nworkers, tasks, failed, vols, wlog, dpc, dret, filesVars, cubeVars, fnVars>>
    /\ UNCHANGED taskVars

\* the task reads its gather from the merged volume and runs the regressions
TaskCompute(n) ==
    /\ dpc = "running"
    /\ n \in InFlight
    /\ tstage[n] = 1
    /\ tstage' = [tstage EXCEPT ![n] = 2]
    /\ UNCHANGED <<surveyVars, fileVars, mergeVars, impl, modname, inlines, crosslines,
                   nworkers, tasks, failed, vols, wlog, dpc, dret, filesVars, cubeVars, fnVars>>
    /\ UNCHANGED taskVars

\* the next of the task's five blocks: open the volume, assign the trace, close
TaskWrite(n) ==
    /\ dpc = "running"
    /\ n \in InFlight
    /\ tstage[n] \in 2..6
    /\ LET w == WritePlan(impl, tasks[n])[tstage[n] - 1]
           t == Unpack(impl, tasks[n]).index
       IN  IF w.file = merge_path
           THEN /\ merged' = [merged EXCEPT !.trace = TraceAssign(@, t, w.data)]
                /\ UNCHANGED <<vols, wlog>>
           ELSE /\ vols' = [vols EXCEPT ![w.file] = TraceAssign(@, t, w.data)]
                /\ wlog' = [wlog EXCEPT ![w.file][t] = Append(@, n)]
                /\ merged' = merged
    /\ tstage' = [tstage EXCEPT ![n] = @ + 1]
    /\ UNCHANGED <<surveyVars, disk, mergeVars, impl, modname, inlines, crosslines,
                   nworkers, tasks, failed, dpc, dret, filesVars, cubeVars, fnVars>>
    /\ UNCHANGED taskVars

\* the step the task is at raises (reading the gather or the regression at
\* stage 1, opening or assigning a volume at stages 2..6): the task ends there
TaskFail(n) ==
    /\ dpc = "running"
    /\ n \in InFlight
    /\ Cardinality(failed) < MaxFaults
    /\ failed' = failed \cup {n}
    /\ UNCHANGED <<surveyVars, fileVars, mergeVars, impl, modname, inlines, crosslines,
                   nworkers, tasks, tstage, vols, wlog, dpc, dret, filesVars, cubeVars, fnVars>>
    /\ UNCHANGED taskVars

\* Pool.map returns once every task has ended: it re-raises the first exception
\* a task raised, and otherwise the dispatcher returns
DispatchReturn ==
    /\ dpc = "running"
    /\ \A n \in DOMAIN tstage : Finished(n)
    /\ dpc' = "returned"
    /\ dret' = IF failed = {} THEN ReturnValue(impl) ELSE Outcome("raised")
    /\ UNCHANGED <<surveyVars, fileVars, mergeVars, impl, modname, inlines, crosslines,
                   nworkers, tasks, tstage, failed, vols, wlog, filesVars, cubeVars, fnVars>>
    /\ UNCHANGED taskVars

NextDisp ==
    \/ DispatchBegin
    \/ \E n \in DOMAIN tstage : TaskPick(n)
    \/ \E n \in DOMAIN tstage : TaskCompute(n)
    \/ \E n \in DOMAIN tstage : TaskWrite(n)
    \/ DispatchReturn

NextDispFault ==
    \/ NextDisp
    \/ \E n \in DOMAIN tstage : TaskFail(n)

NextMerge == MergeBegin \/ MergeIter \/ MergeReturn

\* ------------------------------------------------- AVOModule.files_from_np
\* the header fields of an attribute volume that files_from_np deals with
AttrHeader(scalco, cdpx, cdpy, iline, xline) ==
    [scalco |-> scalco, cdpx |-> cdpx, cdpy |-> cdpy, iline |-> iline, xline |-> xline]

\* segyio.tools.from_array3D(path, zeros((n_il, n_xl, ns))): n_il * n_xl zero
\* traces, the lines numbered from 1 in both directions
FromArray3D(n_il, n_xl) ==
    [header |-> [t \in 0..(n_il * n_xl - 1) |->
                   AttrHeader(0, 0, 0, (t \div n_xl) + 1, (t % n_xl) + 1)],
     trace |-> [t \in 0..(n_il * n_xl - 1) |-> ZeroTrace]]

\* len(range(lines[0], lines[-1] + 1))
RangeLen(lines) == lines[Len(lines)] + 1 - lines[1]

\* the value range(lines[0], lines[-1] + 1) yields at position pos (from 1)
LoopLine(lines, pos) == lines[1] + (pos - 1)

\* np.arange(0, tracecount, len(offsets)): the merged traces of the first offset
StakedTraceIndex(m) ==
    LET k == Len(m.offsets)
        n == (TraceCount(m) + k - 1) \div k
    IN  [u \in 1..n |-> (u - 1) * k]

\* from_array3D of the gradient volume, and the three attribute arrays read from
\* the merged volume
FilesCreate ==
    /\ fpc = "idle"
    /\ merged # NoFile
    /\ inlines # <<>> /\ crosslines # <<>>
    /\ LET a == FromArray3D(Len(inlines), Len(crosslines))
       IN  /\ vols' = [vols EXCEPT ![gradient_path] = a.trace]
           /\ vhdr' = [vhdr EXCEPT ![gradient_path] = a.header]
           /\ wlog' = [wlog EXCEPT ![gradient_path] = [t \in DOMAIN a.trace |-> <<>>]]
    /\ trace_counter' = 0
    /\ fpc' = "loop"
    /\ UNCHANGED <<surveyVars, fileVars, mergeVars, impl, modname, inlines, crosslines,
                   nworkers, tasks, tstage, failed, dpc, dret, cubeVars, fnVars>>
    /\ UNCHANGED taskVars

FilesLoopDone == trace_counter >= RangeLen(inlines) * RangeLen(crosslines)

\* one pass of the body of the two for loops over range(first, last + 1)
FilesHeader ==
    /\ fpc = "loop"
    /\ ~FilesLoopDone
    /\ LET iline == LoopLine(inlines, (trace_counter \div RangeLen(crosslines)) + 1)
           xline == LoopLine(crosslines, (trace_counter % RangeLen(crosslines)) + 1)
           staked == StakedTraceIndex(merged)
       IN  IF trace_counter < Len(staked) /\ trace_counter \in DOMAIN vhdr[gradient_path]
           THEN LET h == merged.header[staked[trace_counter + 1]]
                IN  /\ vhdr' = [vhdr EXCEPT ![gradient_path][trace_counter] =
                                   AttrHeader(h.scalco, h.cdpx, h.cdpy, iline, xline)]
                    /\ trace_counter' = trace_counter + 1
                    /\ fpc' = fpc
           ELSE \* IndexError: scalar[trace_counter], g.header[trace_counter]
                /\ fpc' = "raised"
                /\ UNCHANGED <<vhdr, trace_counter>>
    /\ UNCHANGED <<surveyVars, fileVars, mergeVars, dispVars, cubeVars, fnVars>>
    /\ UNCHANGED taskVars

\* the four copyfile calls and the return
FilesCopy ==
    /\ fpc = "loop"
    /\ FilesLoopDone
    /\ vols' = [p \in DOMAIN vols |-> IF p \in AttrPaths THEN vols[gradient_path] ELSE vols[p]]
    /\ vhdr' = [p \in DOMAIN vhdr |-> IF p \in AttrPaths THEN vhdr[gradient_path] ELSE vhdr[p]]
    /\ wlog' = [p \in DOMAIN wlog |-> IF p \in AttrPaths THEN wlog[gradient_path] ELSE wlog[p]]
    /\ fpc' = "returned"
    /\ UNCHANGED <<surveyVars, fileVars, mergeVars, impl, modname, inlines, crosslines,
                   nworkers, tasks, tstage, failed, dpc, dret, trace_counter, cubeVars, fnVars>>
    /\ UNCHANGED taskVars

NextFiles == FilesCreate \/ FilesHeader \/ FilesCopy

\* ------------------------------------------- Survey.cube_data_organization
Abs(x) == IF x < 0 THEN 0 - x ELSE x

RECURSIVE GCD(_, _)
GCD(a, b) == IF b = 0 THEN a ELSE GCD(b, a % b)

\* the float that holds num / den (den > 0), as a fraction in lowest terms
Quot(num, den) ==
    LET g == GCD(Abs(num), den)
    IN  [num |-> num \div g, den |-> den \div g]

NpWhereScalarSigned(c, scalar) ==
    IF scalar = 0 THEN Quot(c, 1)
    ELSE IF scalar > 0 THEN Quot(c * scalar, 1)
    ELSE Quot(0 - c, Abs(scalar))

\* np.where(scalar == 0, c, np.where(scalar > 0, c * scalar, c / abs(scalar)))
NpWhereScalar(c, scalar) ==
    IF scalar = 0 THEN Quot(c, 1)
    ELSE IF scalar > 0 THEN Quot(c * scalar, 1)
    ELSE Quot(c, Abs(scalar))

BasemapUnscaleXOnly(row) ==
    [iline |-> row.iline, xline |-> row.xline,
     utmx |-> NpWhereScalar(row.utmx, row.scalar),
     utmy |-> Quot(row.utmy, 1)]

\* the utmx and utmy columns of basemap_dataframe after the two np.where
BasemapUnscale(row) ==
    [iline |-> row.iline, xline |-> row.xline,
     utmx |-> NpWhereScalar(row.utmx, row.scalar),
     utmy |-> NpWhereScalar(row.utmy, row.scalar)]

\* ndarray.argmin() / argmax(): the first position of the smallest / largest value
ArgMin(a) == CHOOSE t \in DOMAIN a : \A u \in DOMAIN a : a[t] < a[u] \/ (a[t] = a[u] /\ t <= u)

ArgMax(a) == CHOOSE t \in DOMAIN a : \A u \in DOMAIN a : a[t] > a[u] \/ (a[t] = a[u] /\ t <= u)

\* the DataFrame built from the merged volume: the four corner rows, unscaled,
\* the scalar column dropped, and the first row once more
BasemapOf(segy) ==
    LET utmx == [t \in DOMAIN segy.header |-> segy.header[t].cdpx]
        utmy == [t \in DOMAIN segy.header |-> segy.header[t].cdpy]
        corners == <<ArgMin(utmx), ArgMin(utmy), ArgMax(utmx), ArgMax(utmy)>>
        rows == [c \in 1..4 |->
                   BasemapUnscale([iline |-> segy.header[corners[c]].iline,
                                   xline |-> segy.header[corners[c]].xline,
                                   utmx |-> segy.header[corners[c]].cdpx,
                                   utmy |-> segy.header[corners[c]].cdpy,
                                   scalar |-> segy.header[corners[c]].scalco])]
    IN  Append(rows, rows[1])

\* one call of cube_data_organization
CubeDataOrganization ==
    /\ mpc \in {"idle", "returned"}
    /\ fpc = "idle"
    /\ dpc = "idle"
    /\ IF cube_validation = TRUE
       THEN IF basemap_dataframe = <<>>
            THEN IF merged # NoFile
                 THEN /\ inlines' = merged.ilines
                      /\ crosslines' = merged.xlines
                      /\ sample_interval' = merged.header[0].dt \div 1000
                      /\ samples_per_trace' = merged.header[0].ns
                      /\ basemap_dataframe' = BasemapOf(merged)
                      /\ cdo_ret' = [kind |-> "dataframe", value |-> BasemapOf(merged)]
                      /\ UNCHANGED <<cube_validation, wells_validation>>
                 ELSE \* segyio.open(self.merge_path) of a file that is not there
                      /\ cdo_ret' = [kind |-> "raised"]
                      /\ UNCHANGED <<inlines, crosslines, sample_interval, samples_per_trace,
                                     basemap_dataframe, cube_validation, wells_validation>>
            ELSE \* the return statement belongs to the block of "if ... .empty":
                 \* with a frame already stored the method ends without a return
                 /\ cdo_ret' = [kind |-> "None"]
                 /\ UNCHANGED <<inlines, crosslines, sample_interval, samples_per_trace,
                                basemap_dataframe, cube_validation, wells_validation>>
       ELSE \* return(Survey.validation(self))
            LET v == Validation(gathers_path, wells_path, cube_validation, wells_validation)
                c == CubeLoop(gathers_path, 1, cube_validation)
                w == WellsLoop(wells_path, 1, wells_validation)
            IN  /\ cube_validation' = v.cube_validation
                /\ wells_validation' = v.wells_validation
                /\ cdo_ret' = IF c.returned \/ w.returned
                              THEN [kind |-> "message"] ELSE [kind |-> "None"]
                /\ UNCHANGED <<inlines, crosslines, sample_interval, samples_per_trace,
                               basemap_dataframe>>
    /\ UNCHANGED <<gathers_path, wells_path, angle_list, fileVars, mergeVars,
                   impl, modname, nworkers, tasks, tstage, failed, vols, wlog, dpc, dret,
                   filesVars, fnVars>>
    /\ UNCHANGED taskVars

\* ---------------------------------------------------------- Survey.__init__
\* an argument left at its default None, or given
None == [given |-> FALSE]

Given(value) == [given |-> TRUE, value |-> value]

SynthAngleListFromZero(n, angle_interval) == [i \in 1..n |-> (i - 1) * angle_interval]

\* [i * angle_interval for i in range(1, len(gathers_path) + 1)]
SynthAngleList(n, angle_interval) == [i \in 1..n |-> i * angle_interval]

\* Survey(survey_name, gathers_path, wells_path, ..., angle_interval, angle_list)
SurveyInit ==
    /\ call.fn = "Survey"
    /\ ret.kind = "pending"
    /\ gathers_path' = call.gathers_path
    /\ wells_path' = call.wells_path
    /\ angle_list' = IF call.angle_list = None
                     THEN SynthAngleList(Len(call.gathers_path), call.angle_interval)
                     ELSE call.angle_list.value
    /\ cube_validation' = FALSE
    /\ wells_validation' = FALSE
    /\ basemap_dataframe' = <<>>
    /\ inlines' = <<>>
    /\ crosslines' = <<>>
    /\ ret' = [kind |-> "returned"]
    /\ UNCHANGED <<fileVars, mergeVars, impl, modname, nworkers, tasks, tstage, failed,
                   vols, wlog, dpc, dret, filesVars, sample_interval, samples_per_trace,
                   cdo_ret, call>>
    /\ UNCHANGED taskVars

\* ------------------------------------------------- the coordinate unscaling
\* df['utmx'], df['utmy'] of AVOModule.attributes_organization (AVO.py)
AttributesUnscale(row) ==
    [iline |-> row.iline, xline |-> row.xline,
     utmx |-> NpWhereScalar(row.utmx, row.scalar),
     utmy |-> NpWhereScalar(row.utmy, row.scalar)]

\* pando['utmx'], pando['utmy'] of attributes_organization (avo.py)
PandoUnscale(row) ==
    [iline |-> row.iline, xline |-> row.xline,
     utmx |-> NpWhereScalar(row.utmx, row.scalar),
     utmy |-> NpWhereScalar(row.utmy, row.scalar)]

\* trace_coordinates['utmx'], ['utmy'] of cube_data_organization (utils.py)
TraceCoordinatesUnscale(row) ==
    [iline |-> row.iline, xline |-> row.xline,
     utmx |-> NpWhereScalar(row.utmx, row.scalar),
     utmy |-> NpWhereScalar(row.utmy, row.scalar)]

UnscalePlaces ==
    {"Survey.cube_data_organization", "AVOModule.attributes_organization",
     "avo.attributes_organization", "utils.cube_data_organization"}

\* the unscaling statements of one of the four places, applied to one row
Unscale ==
    /\ call.fn = "unscale"
    /\ ret.kind = "pending"
    /\ ret' = [kind |-> "returned",
               row |-> CASE call.place = "Survey.cube_data_organization" ->
                              BasemapUnscale(call.row)
                         [] call.place = "AVOModule.attributes_organization" ->
                              AttributesUnscale(call.row)
                         [] call.place = "avo.attributes_organization" ->
                              PandoUnscale(call.row)
                         [] call.place = "utils.cube_data_organization" ->
                              TraceCoordinatesUnscale(call.row)]
    /\ UNCHANGED <<surveyVars, fileVars, mergeVars, dispVars, filesVars, cubeVars, call>>
    /\ UNCHANGED taskVars

\* ------------------------------------------------- the per-location task
\* Numbers a task computes are fractions [num, den] in lowest terms; NaN is the
\* float nan that 0.0 / 0.0 yields.
NaN == [num |-> 0, den |-> 0]

QMul(p, q) == Quot(p.num * q.num, p.den * q.den)

\* 1000 * sin(radians(angle))**2, rounded, for the angles used here
Sin2Milli(angle) ==
    CASE angle = 0 -> 0
      [] angle = 15 -> 67
      [] angle = 30 -> 250

\* sins = [np.sin(np.radians(angle)) * np.sin(np.radians(angle)) for angle in angle_list]
Sins(angles) == [i \in 1..Len(angles) |-> Sin2Milli(angles[i])]

\* the for loop over angle_list that builds amp, from angle i on: an angle equal
\* to angle_list[0] starts the matrix anew with its trace as the only column,
\* any other angle appends its trace as a further column
RECURSIVE AmpFrom(_, _, _, _)
AmpFrom(angles, gather, i, amp) ==
    IF i > Len(angles) THEN amp
    ELSE IF angles[i] = angles[1]
         THEN AmpFrom(angles, gather, i + 1, <<gather[angles[i]]>>)
         ELSE AmpFrom(angles, gather, i + 1, Append(amp, gather[angles[i]]))

AmpRowFirst(amp, row) == [c \in 1..Len(amp) |-> amp[c][1]]

\* amp[row]
AmpRow(amp, row) == [c \in 1..Len(amp) |-> amp[c][row]]

RECURSIVE SumOver(_, _)
SumOver(f, n) == IF n = 0 THEN 0 ELSE f[n] + SumOver(f, n - 1)

\* two-sided p-value of the t statistic of r over n points
PValue(n, rzero, rone, yequal) ==
    IF n = 1 THEN "nan"
    ELSE IF n = 2 THEN (IF yequal THEN "one" ELSE "zero")
    ELSE IF rzero THEN "one"
    ELSE IF rone THEN "tiny"
    ELSE "between"

\* stats.linregress(x, y) on x in thousandths and y in thousandths of an
\* amplitude unit: slope = ssxym / ssxm, intercept = ymean - slope * xmean,
\* r = ssxym / sqrt(ssxm * ssym) or 0.0 when that root is 0
LinRegress(x, y) ==
    IF Len(x) # Len(y) \/ Len(x) = 0
    THEN [kind |-> "raised"]
    ELSE IF Len(x) > 1 /\ \A i \in DOMAIN x : x[i] = x[1]
    THEN [kind |-> "raised"]
    ELSE
      LET n == Len(x)
          sx == SumOver(x, n)
          sy == SumOver(y, n)
          ssxm == n * SumOver([i \in 1..n |-> x[i] * x[i]], n) - sx * sx
          ssym == n * SumOver([i \in 1..n |-> y[i] * y[i]], n) - sy * sy
          ssxym == n * SumOver([i \in 1..n |-> x[i] * y[i]], n) - sx * sy
          slope == IF ssxm = 0 THEN NaN ELSE Quot(ssxym, ssxm)
          rzero == ssxm = 0 \/ ssym = 0 \/ ssxym = 0
          rsquare == IF rzero THEN Quot(0, 1)
                     ELSE QMul(Quot(Abs(ssxym), ssxm), Quot(Abs(ssxym), ssym))
      IN  [kind |-> "returned",
           slope |-> slope,
           intercept |-> IF slope = NaN THEN NaN
                         ELSE Quot(sy * slope.den - slope.num * sx, n * 1000 * slope.den),
           rsign |-> IF rzero THEN 0 ELSE IF ssxym > 0 THEN 1 ELSE 0 - 1,
           rsquare |-> rsquare,
           pvalue |-> PValue(n, rzero, rsquare = Quot(1, 1), ssym = 0),
           stderr |-> IF n = 1 THEN NaN
                      ELSE IF n = 2 \/ rsquare = Quot(1, 1) \/ ssym = 0 THEN Quot(0, 1)
                      ELSE Quot(1, 1)]

\* attributes_computation / AVO_attributes_computation_2 for one location: the
\* five arrays it stores, or the exception that ends it before the first write
LocationArrays(angles, gather, ns) ==
    LET amp == AmpFrom(angles, gather, 1, <<>>)
        sins == Sins(angles)
        fit == [row \in 1..ns |-> LinRegress(sins, AmpRow(amp, row))]
    IN  IF \E row \in 1..ns : fit[row].kind = "raised"
        THEN [kind |-> "raised"]
        ELSE [kind |-> "stored",
              gradient |-> [row \in 1..ns |-> fit[row].slope],
              intercept |-> [row \in 1..ns |-> fit[row].intercept],
              rsign |-> [row \in 1..ns |-> fit[row].rsign],
              rsquare |-> [row \in 1..ns |-> fit[row].rsquare],
              pvalue |-> [row \in 1..ns |-> fit[row].pvalue],
              stderr |-> [row \in 1..ns |-> fit[row].stderr]]

\* the gather of a location whose amplitude at sample s is m * sin^2(angle) + b + s - 1,
\* in thousandths
SyntheticGather(m, b, ns) ==
    [angle \in {0, 15, 30} |-> [s \in 1..ns |-> m * Sin2Milli(angle) + 1000 * (b + s - 1)]]

\* one task, run on a synthetic gather
AttributesComputation ==
    /\ call.fn = "attributes_computation"
    /\ ret.kind = "pending"
    /\ ret' = LocationArrays(call.angle_list, SyntheticGather(call.m, call.b, MaxNs), MaxNs)
    /\ UNCHANGED <<surveyVars, fileVars, mergeVars, dispVars, filesVars, cubeVars, call>>
    /\ UNCHANGED taskVars

\* ------------------------------------------ the class attributes of Survey
\* the six paths of Survey number i
PathsOf(i) ==
    [merge_path |-> <<"merge", i>>, gradient_path |-> <<"gradient", i>>,
     intercept_path |-> <<"intercept", i>>, rvalue_path |-> <<"rvalue", i>>,
     pvalue_path |-> <<"pvalue", i>>, stderr_path |-> <<"stderr", i>>]

\* the class attributes before any Survey is constructed
NoSurvey ==
    [paths |-> PathsOf(0), angle_list |-> <<>>, inlines |-> <<>>, crosslines |-> <<>>]

\* Survey.__init__(..): every argument is assigned to an attribute of the class
\* Survey itself, and the line lists of the class are emptied
InitOnClass(class, args) ==
    [paths |-> args.paths,
     angle_list |-> IF args.angle_list = None
                    THEN SynthAngleList(args.stacks, args.angle_interval)
                    ELSE args.angle_list.value,
     inlines |-> <<>>,
     crosslines |-> <<>>]

\* the class attributes once the Surveys of constructions i.. have been built
RECURSIVE ClassAfter(_, _, _)
ClassAfter(constructions, i, class) ==
    IF i > Len(constructions) THEN class
    ELSE ClassAfter(constructions, i + 1, InitOnClass(class, constructions[i]))

\* self.inlines of a Survey object: the attribute cube_data_organization has set
\* on the object if it was called on it, the class attribute otherwise
SelfLines(class, organized) ==
    IF organized THEN [inlines |-> <<101, 102>>, crosslines |-> <<201>>]
    ELSE [inlines |-> class.inlines, crosslines |-> class.crosslines]

\* the items index_generator yields for the lines of an AVOModule: the paths
\* and the angle list are read from the class Survey at each yield
RECURSIVE YieldedFrom(_, _, _, _, _)
YieldedFrom(class, lines, i, j, trace_index) ==
    IF i > Len(lines.inlines) THEN <<>>
    ELSE IF j > Len(lines.crosslines) THEN YieldedFrom(class, lines, i + 1, 1, trace_index)
    ELSE <<[paths |-> class.paths, angle_list |-> class.angle_list,
            iline_number |-> lines.inlines[i], xline_number |-> lines.crosslines[j],
            trace_index |-> trace_index]>>
         \o YieldedFrom(class, lines, i, j + 1, trace_index + 1)

\* the name Survey inside AVO.py: AVO.py neither defines nor imports it, so it
\* resolves only where the classes share one namespace (module "__main__")
SurveyResolves(module) == module = "__main__"

\* Surveys are constructed one after another; then index_generator and
\* files_from_np of the AVOModule of one of them run
SharedState ==
    /\ call.fn = "shared_state"
    /\ ret.kind = "pending"
    /\ LET class == ClassAfter(call.constructions, 1, NoSurvey)
           lines == SelfLines(class, call.organized)
       IN  ret' = IF SurveyResolves(call.module)
                  THEN [kind |-> "returned",
                        yielded |-> YieldedFrom(class, lines, 1, 1, 0),
                        files |-> class.paths]
                  ELSE [kind |-> "raised"]
    /\ UNCHANGED <<surveyVars, fileVars, mergeVars, dispVars, filesVars, cubeVars, call, taskVars>>

\* ------------------------------------------------------ seismic_intersection
\* Series.min() and Series.max() of a column of the basemap DataFrame
ColumnMin(rows, column) ==
    CHOOSE v \in {rows[i][column] : i \in DOMAIN rows} :
        \A i \in DOMAIN rows : v <= rows[i][column]

ColumnMax(rows, column) ==
    CHOOSE v \in {rows[i][column] : i \in DOMAIN rows} :
        \A i \in DOMAIN rows : v >= rows[i][column]

\* tracf of seismic_intersection: the line ranges are taken from the rows of
\* self.basemap_dataframe, the corner rows of cube_data_organization
Tracf(rows, iline_number, xline_number) ==
    LET dif_lines == Abs(ColumnMax(rows, "xline") - ColumnMin(rows, "xline")) + 1
    IN  (iline_number - ColumnMin(rows, "iline")) * dif_lines
            + (xline_number - ColumnMin(rows, "xline")) + 1

\* CDP_X and CDP_Y of the trace at inline position i and crossline position j
\* (from 0), trace t of the volume, for four ways of filling the two headers
CdpOf(layout, t, i, j) ==
    CASE layout = "by_trace" -> [cdpx |-> 1000 + t, cdpy |-> 2000 + t]
      [] layout = "aligned" -> [cdpx |-> 1000 + 10 * j, cdpy |-> 2000 + 10 * i]
      [] layout = "rotated" -> [cdpx |-> 1000 + 10 * i - 10 * j, cdpy |-> 2000 + 10 * i + 10 * j]
      [] layout = "empty" -> [cdpx |-> 0, cdpy |-> 0]

\* the headers of a merged volume of grid g that cube_data_organization reads
SurveyVolume(g, layout) ==
    [header |-> [t \in 0..(g[1] * g[2] - 1) |->
        [iline |-> Ilines(g)[(t \div g[2]) + 1],
         xline |-> Xlines(g)[(t % g[2]) + 1],
         cdpx |-> CdpOf(layout, t, t \div g[2], t % g[2]).cdpx,
         cdpy |-> CdpOf(layout, t, t \div g[2], t % g[2]).cdpy,
         scalco |-> 1]]]

\* cube_data_organization on the volume, then seismic_intersection for every
\* inline and crossline of the survey
SeismicIntersection ==
    /\ call.fn = "seismic_intersection"
    /\ ret.kind = "pending"
    /\ LET rows == BasemapOf(SurveyVolume(call.grid, call.layout))
       IN  ret' = [kind |-> "returned",
                   tracf |-> [il \in Range(Ilines(call.grid)) |->
                                [xl \in Range(Xlines(call.grid)) |-> Tracf(rows, il, xl)]]]
    /\ UNCHANGED <<surveyVars, fileVars, mergeVars, dispVars, filesVars, cubeVars, call, taskVars>>

\* ------------------------------------------- the file validations of utils.py
\* the results of the functions of this section
Raised == [kind |-> "raised"]

Returned(value) == [kind |-> "returned", value |-> value]

\* list(segyio.tracefield.keys.keys()): the standard keys, named by their byte
SegyioKeys == [i \in 1..MaxKeys |-> 4 * i - 3]

\* os.path.isfile(path)
path_validation(path) == path.exists

\* os.path.splitext and the comparison of the extension, in lower case
check_file_extension(path) == path.ext = ".txt" \/ path.ext = ".sgy"

\* segyio.open(path, "r") succeeds on an existing SEG-Y file and raises otherwise
SegyioOpens(path) == path.exists /\ path.content = "segy"

\* the loop over the keys: both branches of its first pass return, and a loop
\* over no key falls off the end of the function
CompareKeys(file_header, failure) ==
    IF Len(file_header) = 0 THEN Returned("None")
    ELSE IF SegyioKeys[1] = file_header[1] THEN Returned("True")
    ELSE Returned(failure)

\* version "source": source/utils.py (the header of trace 0);
\* version "test": modules and test/utils.py (the header of trace step)
cube_file_segy_format_validation(version, path, step) ==
    IF ~SegyioOpens(path) THEN Raised
    ELSE IF version = "test" /\ (step >= path.tracecount \/ step < 0 - path.tracecount) THEN Raised
    ELSE CompareKeys(path.keys, "False")

\* file_validation of Old/utils.py
file_validation(path) ==
    IF ~path.exists THEN Returned("warning")
    ELSE IF path.ext \notin {".txt", ".sgy", ".segy"} THEN Returned("warning")
    ELSE IF path.ext = ".txt" THEN Returned("True")
    ELSE IF ~SegyioOpens(path) THEN Raised
    ELSE CompareKeys(path.keys, "warning")

\* TRACE_SEQUENCE_FILE numbers the traces of the file from 1
cube_file_step_validation(path, step) ==
    IF ~SegyioOpens(path) THEN Raised
    ELSE IF step >= 1 /\ step <= path.tracecount THEN Returned("True")
    ELSE Returned("False")

cube_file_validation(version, path, step) ==
    IF version = "source"
    THEN IF path_validation(path) /\ check_file_extension(path)
         THEN LET f == cube_file_segy_format_validation(version, path, step)
              IN  IF f = Raised THEN Raised
                  ELSE IF f = Returned("True") THEN Returned("True")
                  ELSE Returned("warning")
         ELSE Returned("warning")
    ELSE IF check_file_extension(path)
         THEN LET f == cube_file_segy_format_validation(version, path, step)
                  v == cube_file_step_validation(path, step)
              IN  IF f = Raised THEN Raised
                  ELSE IF f = Returned("True")
                       THEN IF v = Raised THEN Raised
                            ELSE IF v = Returned("True") THEN Returned("True")
                            ELSE Returned("warning")
                  ELSE Returned("warning")
         ELSE Returned("warning")

\* cube_data_organization of the two utils.py: the DataFrame of a validated
\* file, the warning otherwise
cube_data_organization(version, path, step) ==
    LET v == cube_file_validation(version, path, step)
    IN  IF v = Raised THEN Raised
        ELSE IF v = Returned("True") THEN Returned("DataFrame")
        ELSE Returned("warning")

\* one call of one of the functions of this section
UtilsValidation ==
    /\ call.fn \in {"cube_file_validation", "cube_data_organization",
                    "cube_file_segy_format_validation", "file_validation"}
    /\ ret.kind = "pending"
    /\ ret' = CASE call.fn = "cube_file_validation" ->
                     cube_file_validation(call.version, call.path, call.step)
                [] call.fn = "cube_data_organization" ->
                     cube_data_organization(call.version, call.path, call.step)
                [] call.fn = "cube_file_segy_format_validation" ->
                     cube_file_segy_format_validation(call.version, call.path, call.step)
                [] call.fn = "file_validation" -> file_validation(call.path)
    /\ UNCHANGED <<surveyVars, fileVars, mergeVars, dispVars, filesVars, cubeVars, call>>
    /\ UNCHANGED taskVars

\* ---------------------------------------------------------- step_validation
Digits == <<"0", "1", "2", "3", "4", "5", "6", "7", "8", "9">>

IsDigit(c) == \E d \in 1..10 : Digits[d] = c

DigitValue(c) == (CHOOSE d \in 1..10 : Digits[d] = c) - 1

\* str.strip() of the whitespace on both sides, as int() does before parsing
RECURSIVE LStrip(_)
LStrip(text) == IF text # <<>> /\ Head(text) = " " THEN LStrip(Tail(text)) ELSE text

RECURSIVE RStrip(_)
RStrip(text) ==
    IF text # <<>> /\ text[Len(text)] = " " THEN RStrip(SubSeq(text, 1, Len(text) - 1)) ELSE text

RECURSIVE DigitsValue(_, _)
DigitsValue(text, acc) ==
    IF text = <<>> THEN acc ELSE DigitsValue(Tail(text), 10 * acc + DigitValue(Head(text)))

\* int(input_value): an int is returned as it is; a str is stripped and must be
\* an optional sign followed by decimal digits, otherwise ValueError (ok = FALSE)
PyInt(x) ==
    IF x.type = "int" THEN [ok |-> TRUE, value |-> x.value]
    ELSE LET t    == RStrip(LStrip(x.text))
             neg  == t # <<>> /\ Head(t) = "-"
             body == IF neg THEN Tail(t) ELSE t
         IN  IF body = <<>> \/ \E i \in DOMAIN body : ~IsDigit(body[i])
             THEN [ok |-> FALSE, value |-> 0]
             ELSE [ok |-> TRUE, value |-> IF neg THEN 0 - DigitsValue(body, 0) ELSE DigitsValue(body, 0)]

PyFalse == [type |-> "bool", v |-> 0]

PyInteger(n) == [type |-> "int", v |-> n]

\* step_validation with the upper limit itself refused
step_validation_exclusive(input_value, max_value) ==
    LET step == PyInt(input_value)
    IN  IF ~step.ok THEN PyFalse
        ELSE IF step.value = 0 \/ step.value >= max_value THEN PyFalse
        ELSE PyInteger(step.value)

\* the body of the while True loop: each of its three branches returns
step_validation(input_value, max_value) ==
    LET step == PyInt(input_value)
    IN  IF ~step.ok THEN PyFalse
        ELSE IF step.value = 0 \/ step.value > max_value THEN PyFalse
        ELSE PyInteger(step.value)

\* one call of step_validation; passes counts the passes through the loop
StepValidation ==
    /\ call.fn = "step_validation"
    /\ ret.kind = "pending"
    /\ ret' = [kind |-> "returned", passes |-> 1,
               value |-> step_validation(call.input_value, call.max_value)]
    /\ UNCHANGED <<surveyVars, fileVars, mergeVars, dispVars, filesVars, cubeVars, call>>
    /\ UNCHANGED taskVars

\* ------------------------------------- one worker task, statement by statement
\* the five "with segyio.open(path, 'r+')" blocks of task n: open, assign, close
WriteBlocks(m, n) ==
    LET plan == WritePlan(m, tasks[n])
        block(i) == <<[op |-> "open", file |-> plan[i].file, mode |-> "r+", data |-> ZeroTrace],
                      [op |-> "assign", file |-> plan[i].file, mode |-> "r+", data |-> plan[i].data],
                      [op |-> "close", file |-> plan[i].file, mode |-> "r+", data |-> ZeroTrace]>>
    IN  block(1) \o block(2) \o block(3) \o block(4) \o block(5)

Statement(op, file) == [op |-> op, file |-> file, mode |-> "r", data |-> ZeroTrace]

\* the statements of task n in program order. AVOModule.attributes_computation
\* leaves the block of the merged volume before the regressions;
\* AVO_attributes_computation_2 runs them inside it
TaskProgram(m, n) ==
    (IF m = "AVOModule"
     THEN <<Statement("open", merge_path), Statement("gather", merge_path),
            Statement("close", merge_path), Statement("regress", merge_path)>>
     ELSE <<Statement("open", merge_path), Statement("gather", merge_path),
            Statement("regress", merge_path), Statement("close", merge_path)>>)
    \o WriteBlocks(m, n) \o <<Statement("return", merge_path)>>

\* the statement the task is at
Current == TaskProgram(impl, hn)[hpc]

AtStatement(op) == hn # 0 /\ hpc \in 1..Len(TaskProgram(impl, hn)) /\ Current.op = op

\* a handle that stays open when its block is left
HandlesKept(open, file) == open

\* SegyFile.__exit__: leaving the block of a file closes its handle
HandlesAfterClose(open, file) == {h \in open : h.file # file}

\* segyio.open(path, mode) at the head of a with block
TaskOpen ==
    /\ AtStatement("open")
    /\ handles' = handles \cup {[file |-> Current.file, mode |-> Current.mode]}
    /\ hlog' = Append(hlog, [ev |-> "open", file |-> Current.file])
    /\ hpc' = hpc + 1
    /\ UNCHANGED <<surveyVars, fileVars, mergeVars, dispVars, filesVars, cubeVars, fnVars, hn>>

\* the loop over angle_list reading segy_file.gather[iline, xline, angle]
TaskGather ==
    /\ AtStatement("gather")
    /\ hpc' = hpc + 1
    /\ UNCHANGED <<surveyVars, fileVars, mergeVars, dispVars, filesVars, cubeVars, fnVars,
                   hn, handles, hlog>>

\* the loop of stats.linregress over the rows of amp
TaskRegress ==
    /\ AtStatement("regress")
    /\ hpc' = hpc + 1
    /\ UNCHANGED <<surveyVars, fileVars, mergeVars, dispVars, filesVars, cubeVars, fnVars,
                   hn, handles, hlog>>

\* volume.trace[trace_index] = array, through the handle of the block
TaskAssign ==
    /\ AtStatement("assign")
    /\ LET t == Unpack(impl, tasks[hn]).index
       IN  /\ vols' = [vols EXCEPT ![Current.file] = TraceAssign(@, t, Current.data)]
           /\ wlog' = [wlog EXCEPT ![Current.file][t] = Append(@, hn)]
    /\ hlog' = Append(hlog, [ev |-> "write", file |-> Current.file])
    /\ hpc' = hpc + 1
    /\ UNCHANGED <<surveyVars, fileVars, mergeVars, impl, modname, inlines, crosslines,
                   nworkers, tasks, tstage, failed, dpc, dret, filesVars, cubeVars, fnVars,
                   hn, handles>>

\* the end of a with block
TaskClose ==
    /\ AtStatement("close")
    /\ handles' = HandlesAfterClose(handles, Current.file)
    /\ hlog' = Append(hlog, [ev |-> "close", file |-> Current.file])
    /\ hpc' = hpc + 1
    /\ UNCHANGED <<surveyVars, fileVars, mergeVars, dispVars, filesVars, cubeVars, fnVars, hn>>

\* the return statement of the task
TaskReturn ==
    /\ AtStatement("return")
    /\ hpc' = hpc + 1
    /\ tstage' = [tstage EXCEPT ![hn] = 7]
    /\ UNCHANGED <<surveyVars, fileVars, mergeVars, impl, modname, inlines, crosslines,
                   nworkers, tasks, failed, vols, wlog, dpc, dret, filesVars, cubeVars, fnVars,
                   hn, handles, hlog>>

\* the statement the task is at raises: the exception leaves the with block it
\* is in, if any, which closes that block's handle, and ends the task
TaskRaise ==
    /\ hn # 0
    /\ hpc \in 1..Len(TaskProgram(impl, hn))
    /\ Current.op \in {"open", "gather", "regress", "assign"}
    /\ handles' = IF Current.op = "open" THEN handles
                  ELSE IF Current.op = "regress" /\ impl = "AVOModule" THEN handles
                  ELSE HandlesAfterClose(handles, Current.file)
    /\ hlog' = IF handles' = handles THEN hlog
               ELSE Append(hlog, [ev |-> "close", file |-> Current.file])
    /\ hpc' = 0
    /\ failed' = failed \cup {hn}
    /\ UNCHANGED <<surveyVars, fileVars, mergeVars, impl, modname, inlines, crosslines,
                   nworkers, tasks, tstage, vols, wlog, dpc, dret, filesVars, cubeVars, fnVars, hn>>

NextTask ==
    TaskOpen \/ TaskGather \/ TaskRegress \/ TaskAssign \/ TaskClose \/ TaskReturn \/ TaskRaise

\* ------------------------------------------------- attributes_organization
\* g.samples of a volume written by from_array3D: dt = 4000 microseconds, no delay
SampleTime(s) == 4 * (s - 1)

\* positions lo and hi of the range tuples: [0] and [-1] (AVO.py), [0] and [1] (avo.py)
InRange(x, range) == x >= range[1] /\ x <= range[2]

\* the DataFrame rows of one trace: one per sample of time_slice
TraceRows(t, time_slice) ==
    LET h == vhdr[gradient_path][t]
    IN  [i \in 1..Len(time_slice) |->
           [inline |-> h.iline, crossline |-> h.xline,
            utmx |-> h.cdpx, utmy |-> h.cdpy, scalar |-> h.scalco,
            time_slice |-> SampleTime(time_slice[i]),
            gradient |-> vols[gradient_path][t][time_slice[i]],
            intercept |-> vols[intercept_path][t][time_slice[i]],
            rvalue |-> vols[rvalue_path][t][time_slice[i]],
            pvalue |-> vols[pvalue_path][t][time_slice[i]],
            serror |-> vols[stderr_path][t][time_slice[i]]]]

\* the positions of seq, in order, that satisfy Keep
RECURSIVE Where(_, _, _)
Where(n, keep, i) ==
    IF i > n THEN <<>>
    ELSE (IF keep[i] THEN <<i>> ELSE <<>>) \o Where(n, keep, i + 1)

\* pd.concat of the rows of the traces listed in trace_index, from position i on
RECURSIVE ConcatRows(_, _, _)
ConcatRows(trace_index, time_slice, i) ==
    IF i > Len(trace_index) THEN <<>>
    ELSE TraceRows(trace_index[i], time_slice) \o ConcatRows(trace_index, time_slice, i + 1)

\* the unscaling of utmx and utmy and df.drop(["scalar"])
OrganizedRow(m, row) ==
    LET c == [iline |-> row.inline, xline |-> row.crossline,
              utmx |-> row.utmx, utmy |-> row.utmy, scalar |-> row.scalar]
        u == IF m = "AVOModule" THEN AttributesUnscale(c) ELSE PandoUnscale(c)
    IN  [inline |-> row.inline, crossline |-> row.crossline,
         utmx |-> u.utmx, utmy |-> u.utmy, time_slice |-> row.time_slice,
         gradient |-> row.gradient, intercept |-> row.intercept, rvalue |-> row.rvalue,
         pvalue |-> row.pvalue, serror |-> row.serror]

\* AVOModule.attributes_organization: the traces and the samples are selected
\* first; df['scalar'] of a DataFrame without rows and columns raises KeyError
AVOModuleOrganization(inline_range, crossline_range, time_window) ==
    LET n == Cardinality(DOMAIN vhdr[gradient_path])
        trace_index == Where(n, [i \in 1..n |->
                          /\ InRange(vhdr[gradient_path][i - 1].iline, inline_range)
                          /\ InRange(vhdr[gradient_path][i - 1].xline, crossline_range)], 1)
        time_slice == Where(MaxNs, [i \in 1..MaxNs |-> InRange(SampleTime(i), time_window)], 1)
        df == ConcatRows([i \in 1..Len(trace_index) |-> trace_index[i] - 1], time_slice, 1)
    IN  IF Len(trace_index) = 0
        THEN [kind |-> "raised"]
        ELSE [kind |-> "returned", rows |-> [i \in 1..Len(df) |-> OrganizedRow("AVOModule", df[i])]]

\* attributes_organization of avo.py: every sample of every trace becomes a row,
\* then the rows inside the three ranges are kept
AvoOrganization(inline_range, crossline_range, time_window) ==
    LET n == Cardinality(DOMAIN vhdr[gradient_path])
        pando == ConcatRows([i \in 1..n |-> i - 1], [i \in 1..MaxNs |-> i], 1)
        kept == Where(Len(pando), [i \in 1..Len(pando) |->
                    /\ InRange(pando[i].time_slice, time_window)
                    /\ InRange(pando[i].inline, inline_range)
                    /\ InRange(pando[i].crossline, crossline_range)], 1)
    IN  IF n = 0
        THEN [kind |-> "raised"]
        ELSE [kind |-> "returned", rows |-> [i \in 1..Len(kept) |-> OrganizedRow("avo", pando[kept[i]])]]

\* one call of attributes_organization on the five volumes
AttributesOrganization ==
    /\ call.fn = "attributes_organization"
    /\ ret.kind = "pending"
    /\ ret' = IF impl = "AVOModule"
              THEN AVOModuleOrganization(call.inline_range, call.crossline_range, call.time_window)
              ELSE AvoOrganization(call.inline_range, call.crossline_range, call.time_window)
    /\ UNCHANGED <<surveyVars, fileVars, mergeVars, dispVars, filesVars, cubeVars, call>>
    /\ UNCHANGED taskVars

NextOrg == AttributesOrganization

\* ------------------------------------------------------- the whole pipeline
\* the methods called in the order the tool needs them: merge, then
\* cube_data_organization, then files_from_np, then the dispatcher
NextTool ==
    \/ MergeBegin
    \/ MergeIter
    \/ MergeReturn
    \/ (merge_ret = "success" /\ basemap_dataframe = <<>> /\ CubeDataOrganization)
    \/ (cdo_ret.kind = "dataframe" /\ FilesCreate)
    \/ FilesHeader
    \/ FilesCopy
    \/ (fpc = "returned" /\ DispatchBegin)
    \/ \E n \in DOMAIN tstage : TaskPick(n)
    \/ \E n \in DOMAIN tstage : TaskCompute(n)
    \/ \E n \in DOMAIN tstage : TaskWrite(n)
    \/ DispatchReturn

\* merge and cube_data_organization, called in any order and any number of times
NextCube == MergeBegin \/ MergeIter \/ MergeReturn \/ CubeDataOrganization

\* ------------------------------------------------------------ initial states
AngleLists(k) == [1..k -> 1..MaxAngle]

\* the contents of a path: a SEG-Y volume if it is an existing file
FileAt(p, f, g, ns) == IF p.exists THEN StackFile(f, g, ns) ELSE NoFile

MergeLocalsInit ==
    /\ mpc = "idle"
    /\ il_i = 1 /\ xl_i = 1 /\ off_i = 1
    /\ merge_index = 0
    /\ stack_index = 0
    /\ merge_ret = "none"
    /\ opened = {}
    /\ write_log = <<>>
    /\ merged = NoFile

\* no worker task under study
TaskIdleInit ==
    /\ hn = 0
    /\ hpc = 0
    /\ handles = {}
    /\ hlog = <<>>

\* no single function call under study
FnIdleInit ==
    /\ call = [fn |-> "none"]
    /\ ret = [kind |-> "pending"]

\* cube_data_organization not called yet
CubeIdleInit ==
    /\ basemap_dataframe = <<>>
    /\ sample_interval = 0
    /\ samples_per_trace = 0
    /\ cdo_ret = [kind |-> "none"]

\* no dispatcher in sight
DispIdleInit ==
    /\ impl = "AVOModule"
    /\ modname = "AVO"
    /\ inlines = <<>>
    /\ crosslines = <<>>
    /\ nworkers = 1
    /\ tasks = <<>>
    /\ tstage = <<>>
    /\ failed = {}
    /\ vols = [p \in AttrPaths |-> <<>>]
    /\ wlog = [p \in AttrPaths |-> <<>>]
    /\ dpc = "idle"
    /\ dret = Outcome("none")
    /\ vhdr = [p \in AttrPaths |-> <<>>]
    /\ fpc = "idle"
    /\ trace_counter = 0
    /\ CubeIdleInit

\* a merged volume of some grid and its five zero-filled attribute volumes
\* (AVOModule.files_from_np), before the dispatcher is called
InitDisp ==
    /\ gathers_path = [f \in 1..MaxStacks |-> [exists |-> TRUE, ext |-> ".sgy"]]
    /\ wells_path = <<>>
    /\ angle_list = [f \in 1..MaxStacks |-> f]
    /\ cube_validation = TRUE
    /\ wells_validation = FALSE
    /\ disk = <<>>
    /\ MergeLocalsInit
    /\ impl \in {"AVOModule", "avo"}
    /\ modname \in {"__main__", IF impl = "AVOModule" THEN "AVO" ELSE "avo"}
    /\ \E g \in Grids :
         /\ inlines = Ilines(g)
         /\ crosslines = Xlines(g)
         /\ vols = [p \in AttrPaths |-> [t \in 0..(g[1] * g[2] - 1) |-> ZeroTrace]]
         /\ wlog = [p \in AttrPaths |-> [t \in 0..(g[1] * g[2] - 1) |-> <<>>]]
         /\ vhdr = [p \in AttrPaths |-> [t \in 0..(g[1] * g[2] - 1) |->
                      LET h == SrcHeader(0, t, 0, 0, MaxNs)
                      IN  AttrHeader(h.scalco, h.cdpx, h.cdpy,
                                     Ilines(g)[(t \div g[2]) + 1], Xlines(g)[(t % g[2]) + 1])]]
         /\ trace_counter = g[1] * g[2]
    /\ fpc = "returned"
    /\ CubeIdleInit
    /\ FnIdleInit
    /\ nworkers \in 1..MaxWorkers
    /\ tasks = <<>>
    /\ tstage = <<>>
    /\ failed = {}
    /\ dpc = "idle"
    /\ dret = Outcome("none")
    /\ TaskIdleInit

SpecDisp == InitDisp /\ [][NextDisp]_vars

SpecDispFault == InitDisp /\ [][NextDispFault]_vars

\* a Survey over angle stacks of one common geometry
InitMerge ==
    /\ \E k \in 1..MaxStacks :
         /\ gathers_path \in [1..k -> PathKinds]
         /\ angle_list \in AngleLists(k)
         /\ \E g \in Grids :
              disk = [f \in 1..k |-> FileAt(gathers_path[f], f - 1, g, MaxNs)]
    /\ wells_path = <<>>
    /\ cube_validation = FALSE
    /\ wells_validation = FALSE
    /\ MergeLocalsInit
    /\ DispIdleInit
    /\ FnIdleInit
    /\ TaskIdleInit

Spec == InitMerge /\ [][NextMerge]_vars

\* a Survey over existing angle stacks, each of a geometry of its own
InitMergeAny ==
    /\ \E k \in 1..MaxStacks :
         /\ gathers_path \in [1..k -> {p \in PathKinds : p.exists /\ ExtIsSegy(p.ext)}]
         /\ angle_list \in AngleLists(k)
         /\ \E gs \in [1..k -> Grids], nss \in [1..k -> 1..MaxNs] :
              disk = [f \in 1..k |-> StackFile(f - 1, gs[f], nss[f])]
    /\ wells_path = <<>>
    /\ cube_validation = FALSE
    /\ wells_validation = FALSE
    /\ MergeLocalsInit
    /\ DispIdleInit
    /\ FnIdleInit
    /\ TaskIdleInit

SpecMergeAny == InitMergeAny /\ [][NextMerge]_vars

SpecCube == InitMerge /\ [][NextCube]_vars

\* a sorted list of n line numbers, step apart
LineList(first, step, n) == [i \in 1..n |-> first + (i - 1) * step]

\* the angle stack at position f over the given lines
StackFileLines(f, ils, xls, ns) ==
    [kind |-> "segy",
     ilines |-> ils, xlines |-> xls, offsets |-> <<0>>, samples |-> ns,
     header |-> [t \in 0..(Len(ils) * Len(xls) - 1) |->
                   SrcHeader(f, t, ils[(t \div Len(xls)) + 1], xls[(t % Len(xls)) + 1], ns)],
     trace |-> [t \in 0..(Len(ils) * Len(xls) - 1) |-> [s \in 1..ns |-> Amp(f, t, s)]]]

\* the merged volume a completed Survey.merge leaves for the given stacks
MergeResult(stacks, angles) ==
    LET f == stacks[1]
        k == Len(angles)
        c == CreateMerged(f, angles)
    IN  [c EXCEPT
           !.header = [m \in DOMAIN c.header |->
                         MergedHeader(f, m \div k, m, angles[(m % k) + 1],
                                      f.ilines[((m \div k) \div Len(f.xlines)) + 1],
                                      f.xlines[((m \div k) % Len(f.xlines)) + 1])],
           !.trace = [m \in DOMAIN c.trace |->
                         stacks[ListIndex(angles, angles[(m % k) + 1]) + 1].trace[m \div k]]]

\* a Survey whose merge has succeeded and whose cube_data_organization has
\* stored the line numbers of the merged volume; files_from_np not yet called
InitFiles ==
    /\ \E k \in 1..MaxStacks, g \in Grids, si \in 1..MaxStep, sx \in 1..MaxStep :
         LET ils == LineList(101, si, g[1])
             xls == LineList(201, sx, g[2])
         IN  /\ gathers_path = [f \in 1..k |-> [exists |-> TRUE, ext |-> ".sgy"]]
             /\ angle_list = [f \in 1..k |-> f]
             /\ disk = [f \in 1..k |-> StackFileLines(f - 1, ils, xls, MaxNs)]
             /\ merged = MergeResult(disk, angle_list)
             /\ inlines = ils
             /\ crosslines = xls
             /\ merge_index = g[1] * g[2] * k
             /\ stack_index = g[1] * g[2]
             /\ il_i = g[1] + 1
             /\ write_log = [m \in 1..(g[1] * g[2] * k) |-> m - 1]
             /\ opened = 0..(k - 1)
    /\ wells_path = <<>>
    /\ cube_validation = TRUE
    /\ wells_validation = FALSE
    /\ mpc = "returned"
    /\ xl_i = 1 /\ off_i = 1
    /\ merge_ret = "success"
    /\ impl = "AVOModule"
    /\ modname = "AVO"
    /\ nworkers = 1
    /\ tasks = <<>>
    /\ tstage = <<>>
    /\ failed = {}
    /\ vols = [p \in AttrPaths |-> <<>>]
    /\ wlog = [p \in AttrPaths |-> <<>>]
    /\ dpc = "idle"
    /\ dret = Outcome("none")
    /\ vhdr = [p \in AttrPaths |-> <<>>]
    /\ fpc = "idle"
    /\ trace_counter = 0
    /\ CubeIdleInit
    /\ FnIdleInit
    /\ TaskIdleInit

SpecFiles == InitFiles /\ [][NextFiles]_vars

\* a Survey over existing angle stacks of one geometry, one angle per stack,
\* with nothing called yet
InitTool ==
    /\ \E k \in 1..MaxStacks, g \in Grids :
         /\ gathers_path = [f \in 1..k |-> [exists |-> TRUE, ext |-> ".sgy"]]
         /\ angle_list = [f \in 1..k |-> f]
         /\ disk = [f \in 1..k |-> StackFile(f - 1, g, MaxNs)]
    /\ wells_path = <<>>
    /\ cube_validation = FALSE
    /\ wells_validation = FALSE
    /\ MergeLocalsInit
    /\ impl \in {"AVOModule", "avo"}
    /\ modname = IF impl = "AVOModule" THEN "__main__" ELSE "avo"
    /\ inlines = <<>>
    /\ crosslines = <<>>
    /\ nworkers \in 1..MaxWorkers
    /\ tasks = <<>>
    /\ tstage = <<>>
    /\ failed = {}
    /\ vols = [p \in AttrPaths |-> <<>>]
    /\ wlog = [p \in AttrPaths |-> <<>>]
    /\ dpc = "idle"
    /\ dret = Outcome("none")
    /\ vhdr = [p \in AttrPaths |-> <<>>]
    /\ fpc = "idle"
    /\ trace_counter = 0
    /\ CubeIdleInit
    /\ FnIdleInit
    /\ TaskIdleInit

SpecTool == InitTool /\ [][NextTool]_vars

\* the arguments of a Survey construction
SurveyCalls ==
    {[fn |-> "Survey", gathers_path |-> gp, wells_path |-> <<>>,
      angle_interval |-> ai, angle_list |-> al] :
        gp \in UNION {[1..k -> {[exists |-> TRUE, ext |-> ".sgy"]}] : k \in 0..MaxStacks},
        ai \in 0..MaxAngle,
        al \in {None} \cup {Given(l) : l \in UNION {AngleLists(k) : k \in 0..MaxStacks}}}

\* raw coordinates as the trace headers hold them
RawCoordinates == {0 - 100, 0, 7, 100}

UnscaleCalls ==
    {[fn |-> "unscale", place |-> p,
      row |-> [iline |-> 101, xline |-> 201, utmx |-> x, utmy |-> y, scalar |-> sc]] :
        p \in UnscalePlaces, x \in RawCoordinates, y \in RawCoordinates,
        sc \in (0 - MaxScalar)..MaxScalar}

\* angle lists of one to three angles out of 0, 15 and 30 degrees
RegressionAngleLists == UNION {[1..k -> {0, 15, 30}] : k \in 1..3}

AttributesComputationCalls ==
    {[fn |-> "attributes_computation", angle_list |-> al, m |-> m, b |-> b] :
        al \in RegressionAngleLists,
        m \in (0 - MaxCoef)..MaxCoef, b \in (0 - MaxCoef)..MaxCoef}

\* the characters of the texts handed to step_validation
StepChars == {"0", "1", "2", "-", " ", "a"}

StepTexts == UNION {[1..n -> StepChars] : n \in 0..MaxLen}

\* texts and integers as input_value, integers as max_value
StepValidationCalls ==
    {[fn |-> "step_validation", input_value |-> v, max_value |-> mx] :
        v \in {[type |-> "str", text |-> t] : t \in StepTexts}
              \cup {[type |-> "int", value |-> n] : n \in {0 - 1, 0, 1, 2, 3, 12, 13}},
        mx \in {1, 2, 12}}

\* the key lists a trace header may show: the standard key or another one
\* at each position
FileKeyLists ==
    {[i \in 1..MaxKeys |-> IF i \in S THEN SegyioKeys[i] ELSE 0] : S \in SUBSET (1..MaxKeys)}

\* paths: missing or existing, four extensions, SEG-Y content or not
UtilsPaths ==
    {[exists |-> e, ext |-> x, content |-> "other", keys |-> SegyioKeys, tracecount |-> 0] :
        e \in BOOLEAN, x \in {".sgy", ".segy", ".txt", ".dat"}}
    \cup {[exists |-> TRUE, ext |-> x, content |-> "segy", keys |-> k, tracecount |-> n] :
            x \in {".sgy", ".segy", ".txt", ".dat"}, k \in FileKeyLists, n \in 1..2}

UtilsCalls ==
    {[fn |-> f, version |-> "source", path |-> p, step |-> 1] :
        f \in {"cube_file_validation", "cube_data_organization",
               "cube_file_segy_format_validation"}, p \in UtilsPaths}
    \cup {[fn |-> f, version |-> "test", path |-> p, step |-> st] :
            f \in {"cube_file_validation", "cube_data_organization",
                   "cube_file_segy_format_validation"}, p \in UtilsPaths, st \in 0..2}
    \cup {[fn |-> "file_validation", version |-> "old", path |-> p, step |-> 1] : p \in UtilsPaths}

\* the arguments of the constructor of Survey number i
SurveyArgs(i) ==
    UNION {{[paths |-> PathsOf(i), stacks |-> k, angle_interval |-> 10 * i, angle_list |-> al] :
               al \in {None, Given([f \in 1..k |-> i + f])}} : k \in 1..MaxStacks}

\* two Surveys constructed in turn, and the AVOModule of the first or the second
SharedStateCalls ==
    {[fn |-> "shared_state", constructions |-> <<a, b>>, holder |-> h, organized |-> o,
      module |-> md] :
        a \in SurveyArgs(1), b \in SurveyArgs(2), h \in 1..2, o \in BOOLEAN,
        md \in {"__main__", "AVO"}}

\* surveys of consecutive lines, their coordinates filled in four ways
SeismicIntersectionCalls ==
    {[fn |-> "seismic_intersection", grid |-> g, layout |-> l] :
        g \in Grids, l \in {"by_trace", "aligned", "rotated", "empty"}}

FnCalls ==
    SurveyCalls \cup UnscaleCalls \cup AttributesComputationCalls \cup StepValidationCalls
        \cup UtilsCalls \cup SharedStateCalls \cup SeismicIntersectionCalls

\* one call of one function, on an otherwise untouched tool
InitFn ==
    /\ call \in FnCalls
    /\ ret = [kind |-> "pending"]
    /\ gathers_path = <<>>
    /\ wells_path = <<>>
    /\ angle_list = <<>>
    /\ cube_validation = FALSE
    /\ wells_validation = FALSE
    /\ disk = <<>>
    /\ MergeLocalsInit
    /\ DispIdleInit
    /\ TaskIdleInit

NextFn ==
    \/ SurveyInit \/ Unscale \/ AttributesComputation \/ StepValidation \/ UtilsValidation
    \/ SharedState \/ SeismicIntersection

SpecFn == InitFn /\ [][NextFn]_vars

\* the five volumes once every task of the generator has stored its arrays
CompletedVolumes(m, gen) ==
    [p \in AttrPaths |->
       [t \in 0..(Len(gen) - 1) |->
          LET n == CHOOSE u \in DOMAIN gen : Unpack(m, gen[u]).index = t
              w == CHOOSE i \in 1..5 : WritePlan(m, gen[n])[i].file = p
          IN  WritePlan(m, gen[n])[w].data]]

\* range tuples and time windows, inside and outside of the survey
OrganizationCalls ==
    {[fn |-> "attributes_organization",
      inline_range |-> ir, crossline_range |-> xr, time_window |-> tw] :
        ir \in {101, 102, 109} \X {101, 102, 109},
        xr \in {201, 202, 209} \X {201, 202, 209},
        tw \in {SampleTime(i) : i \in 1..MaxNs} \X {SampleTime(i) : i \in 1..MaxNs}}

\* a failure-free dispatcher run has returned; attributes_organization is called
InitOrg ==
    /\ gathers_path = [f \in 1..MaxStacks |-> [exists |-> TRUE, ext |-> ".sgy"]]
    /\ wells_path = <<>>
    /\ angle_list = [f \in 1..MaxStacks |-> f]
    /\ cube_validation = TRUE
    /\ wells_validation = FALSE
    /\ disk = <<>>
    /\ MergeLocalsInit
    /\ impl \in {"AVOModule", "avo"}
    /\ modname = IF impl = "AVOModule" THEN "__main__" ELSE "avo"
    /\ \E g \in Grids :
         /\ inlines = Ilines(g)
         /\ crosslines = Xlines(g)
         /\ tasks = Generator(impl)
         /\ tstage = [n \in 1..(g[1] * g[2]) |-> 7]
         /\ vols = CompletedVolumes(impl, tasks)
         /\ wlog = [p \in AttrPaths |-> [t \in 0..(g[1] * g[2] - 1) |-> <<t + 1>>]]
         /\ vhdr = [p \in AttrPaths |-> [t \in 0..(g[1] * g[2] - 1) |->
                      LET h == SrcHeader(0, t, 0, 0, MaxNs)
                      IN  AttrHeader(h.scalco, h.cdpx, h.cdpy,
                                     Ilines(g)[(t \div g[2]) + 1], Xlines(g)[(t % g[2]) + 1])]]
         /\ trace_counter = g[1] * g[2]
    /\ fpc = "returned"
    /\ CubeIdleInit
    /\ nworkers = 1
    /\ failed = {}
    /\ dpc = "returned"
    /\ dret = ReturnValue(impl)
    /\ call \in OrganizationCalls
    /\ ret = [kind |-> "pending"]
    /\ TaskIdleInit

SpecOrg == InitOrg /\ [][NextOrg]_vars

\* a Survey just constructed over any two lists of paths
InitVal ==
    /\ \E k \in 0..MaxStacks : gathers_path \in [1..k -> PathKinds]
    /\ \E k \in 0..MaxStacks : wells_path \in [1..k -> PathKinds]
    /\ angle_list = [f \in 1..Len(gathers_path) |-> f]
    /\ cube_validation = FALSE
    /\ wells_validation = FALSE
    /\ disk = <<>>
    /\ MergeLocalsInit
    /\ DispIdleInit
    /\ call = [fn |-> "validation"]
    /\ ret = [kind |-> "pending"]
    /\ TaskIdleInit

SpecVal == InitVal /\ [][NextVal]_vars

\* a worker of a running Pool has taken task hn of the generator
InitTask ==
    /\ gathers_path = [f \in 1..MaxStacks |-> [exists |-> TRUE, ext |-> ".sgy"]]
    /\ wells_path = <<>>
    /\ angle_list = [f \in 1..MaxStacks |-> f]
    /\ cube_validation = TRUE
    /\ wells_validation = FALSE
    /\ disk = <<>>
    /\ MergeLocalsInit
    /\ impl \in {"AVOModule", "avo"}
    /\ modname = IF impl = "AVOModule" THEN "__main__" ELSE "avo"
    /\ \E g \in Grids :
         /\ inlines = Ilines(g)
         /\ crosslines = Xlines(g)
         /\ tasks = Generator(impl)
         /\ hn \in 1..(g[1] * g[2])
         /\ tstage = [n \in 1..(g[1] * g[2]) |-> IF n = hn THEN 1 ELSE 0]
         /\ vols = [p \in AttrPaths |-> [t \in 0..(g[1] * g[2] - 1) |-> ZeroTrace]]
         /\ wlog = [p \in AttrPaths |-> [t \in 0..(g[1] * g[2] - 1) |-> <<>>]]
         /\ vhdr = [p \in AttrPaths |-> [t \in 0..(g[1] * g[2] - 1) |->
                      LET h == SrcHeader(0, t, 0, 0, MaxNs)
                      IN  AttrHeader(h.scalco, h.cdpx, h.cdpy,
                                     Ilines(g)[(t \div g[2]) + 1], Xlines(g)[(t % g[2]) + 1])]]
         /\ trace_counter = g[1] * g[2]
    /\ fpc = "returned"
    /\ CubeIdleInit
    /\ FnIdleInit
    /\ nworkers = 1
    /\ failed = {}
    /\ dpc = "running"
    /\ dret = Outcome("none")
    /\ hpc = 1
    /\ handles = {}
    /\ hlog = <<>>

SpecTask == InitTask /\ [][NextTask]_vars

\* ==================================================================== claims
\* ---------------------------------------------------------------- the merge
MergeSucceeded == mpc = "returned" /\ merge_ret = "success"

\* any two stacks agree on inline range, crossline range and sample count
GeometryCompatible ==
    \A f1 \in DOMAIN disk, f2 \in DOMAIN disk :
        (disk[f1] # NoFile /\ disk[f2] # NoFile) =>
            /\ disk[f1].ilines = disk[f2].ilines
            /\ disk[f1].xlines = disk[f2].xlines
            /\ disk[f1].samples = disk[f2].samples

\* C1: K geometry-compatible stacks of N traces each and K angles: a successful
\* merge writes exactly N * K traces, merge_index runs over 0..N*K-1 and every
\* index is written exactly once.
C1_MergeTraceCount ==
    (MergeSucceeded /\ GeometryCompatible /\ Len(angle_list) = Len(gathers_path)) =>
        LET n == TraceCount(disk[1]) * Len(angle_list)
        IN  /\ \A f \in DOMAIN disk : TraceCount(disk[f]) * Len(angle_list) = n
            /\ TraceCount(merged) = n
            /\ merge_index = n
            /\ write_log = [m \in 1..n |-> m - 1]

C1_Witness ==
    /\ MergeSucceeded
    /\ Len(gathers_path) >= 2
    /\ Len(disk[1].ilines) >= 2
    /\ Len(disk[1].xlines) >= 2

\* C2 as claimed: after a successful merge the trace at (i*|xlines| + j)*K + k
\* has offset angle_list[k], the i-th inline and j-th crossline, and the samples
\* of trace i*|xlines| + j of the stack at position k of gathers_path.
C2_Original_MergeOrdering ==
    MergeSucceeded =>
        \A i \in 0..(Len(disk[1].ilines) - 1), j \in 0..(Len(disk[1].xlines) - 1),
           k \in 0..(Len(angle_list) - 1) :
            LET t == i * Len(disk[1].xlines) + j
                m == t * Len(angle_list) + k
            IN  /\ merged.header[m].offset = At(angle_list, k)
                /\ merged.header[m].iline = At(disk[1].ilines, i)
                /\ merged.header[m].xline = At(disk[1].xlines, j)
                /\ merged.trace[m] = disk[k + 1].trace[t]

\* C2 as amended: the samples are those of the stack at the first position of
\* angle_list that holds the value angle_list[k] (position k itself when the
\* angles are pairwise distinct).
C2_MergeOrdering ==
    MergeSucceeded =>
        \A i \in 0..(Len(disk[1].ilines) - 1), j \in 0..(Len(disk[1].xlines) - 1),
           k \in 0..(Len(angle_list) - 1) :
            LET t == i * Len(disk[1].xlines) + j
                m == t * Len(angle_list) + k
            IN  /\ merged.header[m].offset = At(angle_list, k)
                /\ merged.header[m].iline = At(disk[1].ilines, i)
                /\ merged.header[m].xline = At(disk[1].xlines, j)
                /\ \E p \in 0..k :
                     /\ At(angle_list, p) = At(angle_list, k)
                     /\ \A q \in 0..(p - 1) : At(angle_list, q) # At(angle_list, k)
                     /\ merged.trace[m] = disk[p + 1].trace[t]
                /\ (\A q \in 0..(Len(angle_list) - 1) :
                        q # k => At(angle_list, q) # At(angle_list, k))
                     => merged.trace[m] = disk[k + 1].trace[t]

C2_Witness ==
    /\ MergeSucceeded
    /\ Len(angle_list) >= 2
    /\ At(angle_list, 0) # At(angle_list, 1)
    /\ Len(disk[1].ilines) >= 2
    /\ Len(disk[1].xlines) >= 2
    /\ merged.trace[(1 * 2 + 1) * 2 + 1] = disk[2].trace[3]

\* the position (from 1) of the stack whose samples merged trace m carries
SupplyingStack(m) ==
    CHOOSE p \in DOMAIN angle_list :
        /\ angle_list[p] = merged.header[m].offset
        /\ \A q \in 1..(p - 1) : angle_list[q] # angle_list[p]

CopiedFields(h) ==
    <<h.tracl, h.tracr, h.fldr, h.cdp, h.cdpt, h.scalco, h.ns, h.dt, h.cdpx, h.cdpy>>

\* C3 as claimed: the copied header fields of every merged trace are those of
\* the trace at the same (inline, crossline) of the stack that supplies the
\* merged trace's samples.
C3_Original_HeaderSource ==
    MergeSucceeded =>
        \A m \in DOMAIN merged.header :
            CopiedFields(merged.header[m]) =
                CopiedFields(disk[SupplyingStack(m)].header[m \div Len(angle_list)])

\* C3 as amended: the copied header fields of every merged trace are those of
\* the trace at the same (inline, crossline) of the first stack, gathers_path[0].
C3_HeaderSource ==
    MergeSucceeded =>
        \A m \in DOMAIN merged.header :
            CopiedFields(merged.header[m]) =
                CopiedFields(disk[1].header[m \div Len(angle_list)])

C3_Witness ==
    /\ MergeSucceeded
    /\ Len(gathers_path) >= 2
    /\ TraceCount(disk[1]) >= 2
    /\ \E m \in DOMAIN merged.header :
         /\ SupplyingStack(m) = 2
         /\ m \div Len(angle_list) >= 1
         /\ merged.header[m].cdpx = disk[1].header[m \div Len(angle_list)].cdpx

\* C4: when two stacks disagree on inline range, crossline range or sample
\* count, the merge ends in a geometry-mismatch outcome and writes no trace.
C4_GeometryMismatchRejected ==
    (~GeometryCompatible /\ mpc # "idle") =>
        /\ write_log = <<>>
        /\ merged = NoFile
        /\ mpc \in {"returned", "raised"}
        /\ merge_ret = "geometry_mismatch"

\* an existing file with a .sgy or .segy extension, in any case
PathIsCube(p) == p.exists /\ p.ext \in {".sgy", ".segy", ".SGY", ".SEGY"}

\* C5: when some path of gathers_path does not exist or has no .sgy/.segy
\* extension, merge leaves cube_validation False, returns the failure message
\* at once, creates no merged volume and opens no angle stack.
C5_InvalidPathStopsMerge ==
    ((\E f \in DOMAIN gathers_path : ~PathIsCube(gathers_path[f])) /\ mpc # "idle") =>
        /\ cube_validation = FALSE
        /\ mpc = "returned"
        /\ merge_ret = "not_suitable"
        /\ merged = NoFile
        /\ opened = {}
        /\ write_log = <<>>

C5_Witness ==
    /\ mpc = "returned"
    /\ merge_ret = "not_suitable"
    /\ Len(gathers_path) >= 2
    /\ PathIsCube(gathers_path[1])
    /\ ~PathIsCube(gathers_path[2])
    /\ cube_validation = FALSE

\* ----------------------------------------------------------- the dispatcher
\* the trace index of the location at inline position i and crossline position j
\* (both from 0)
LocationIndex(i, j) == i * Len(crosslines) + j

GridSize == Len(inlines) * Len(crosslines)

\* C6: after a dispatcher run in which no task failed, each of the five volumes
\* has had exactly one trace written for every (inline, crossline) of the grid.
C6_EveryLocationWrittenOnce ==
    (dpc = "returned" /\ failed = {}) =>
        \A p \in AttrPaths : \A t \in 0..(GridSize - 1) : Len(wlog[p][t]) = 1

\* C7: in every interleaving no two tasks write the same trace index of the same
\* volume; every location of the grid belongs to exactly one task, whose trace
\* index is i*|crosslines| + j.
C7_OneWriterPerTrace ==
    /\ \A p \in AttrPaths : \A t \in DOMAIN wlog[p] : Cardinality(Range(wlog[p][t])) <= 1
    /\ dpc = "running" =>
         /\ Len(tasks) = GridSize
         /\ \A i \in 0..(Len(inlines) - 1), j \in 0..(Len(crosslines) - 1) :
              \E n \in DOMAIN tasks :
                  /\ Unpack(impl, tasks[n]).iline_number = At(inlines, i)
                  /\ Unpack(impl, tasks[n]).xline_number = At(crosslines, j)
                  /\ Unpack(impl, tasks[n]).index = LocationIndex(i, j)
                  /\ \A u \in DOMAIN tasks :
                       (/\ Unpack(impl, tasks[u]).iline_number = At(inlines, i)
                        /\ Unpack(impl, tasks[u]).xline_number = At(crosslines, j)) => u = n
         /\ \A n \in DOMAIN tasks : \A p \in AttrPaths : \A t \in DOMAIN wlog[p] :
              n \in Range(wlog[p][t]) => t = Unpack(impl, tasks[n]).index

\* two tasks at work at once, each having written the same volume
C7_Witness ==
    /\ dpc = "running"
    /\ \E n \in InFlight, u \in InFlight :
         /\ n # u
         /\ tstage[n] >= 3
         /\ tstage[u] >= 3
         /\ \E p \in AttrPaths :
              /\ wlog[p][Unpack(impl, tasks[n]).index] = <<n>>
              /\ wlog[p][Unpack(impl, tasks[u]).index] = <<u>>

\* the locations of the tasks that failed
FailedLocations ==
    {<<Unpack(impl, tasks[n]).iline_number, Unpack(impl, tasks[n]).xline_number>> : n \in failed}

\* C8: when the computation of a location fails the run is not aborted: every
\* other location is computed and stored and the caller receives a report that
\* lists the failed locations.
C8_FailuresReported ==
    (dpc = "returned" /\ failed # {}) =>
        /\ \A n \in DOMAIN tasks : n \notin failed => tstage[n] = 7
        /\ dret.kind # "raised"
        /\ dret.failed = FailedLocations

\* C9: the trace of a location whose task did not complete (it failed while
\* reading the gather, during the regression or at any of its five writes) is
\* still zero-filled in each of the five volumes.
C9_FailedLocationStaysZero ==
    \A n \in failed : \A p \in AttrPaths :
        vols[p][Unpack(impl, tasks[n]).index] = ZeroTrace

\* C10: a task that completed has written the slopes to the gradient volume, the
\* intercepts to the intercept volume, the correlation coefficients to the
\* r-value volume, the p-values to the p-value volume and the standard errors to
\* the stderr volume, each at the trace index of its location.
C10_ResultsInTheirVolumes ==
    \A n \in DOMAIN tstage :
        (tstage[n] = 7 /\ n \notin failed) =>
            LET u == Unpack(impl, tasks[n])
                il == u.iline_number
                xl == u.xline_number
            IN  /\ vols[gradient_path][u.index] = ResultArray("slope", il, xl)
                /\ vols[intercept_path][u.index] = ResultArray("intercept", il, xl)
                /\ vols[rvalue_path][u.index] = ResultArray("rvalue", il, xl)
                /\ vols[pvalue_path][u.index] = ResultArray("pvalue", il, xl)
                /\ vols[stderr_path][u.index] = ResultArray("stderr", il, xl)

\* ------------------------------------------------------- the attribute files
FilesEnded == fpc \in {"returned", "raised"}

\* C11: after files_from_np each of the five attribute volumes has exactly
\* |inlines| x |crosslines| traces, and the inline and crossline headers of
\* trace t are those of the location index_generator gives trace index t, for
\* every sorted inline list and crossline list.
C11_AttributeGeometry ==
    FilesEnded =>
        \A p \in AttrPaths :
            /\ DOMAIN vols[p] = 0..(GridSize - 1)
            /\ DOMAIN vhdr[p] = 0..(GridSize - 1)
            /\ \A n \in 1..Len(Generator(impl)) :
                 LET u == Unpack(impl, Generator(impl)[n])
                 IN  /\ vhdr[p][u.index].iline = u.iline_number
                     /\ vhdr[p][u.index].xline = u.xline_number

\* C12: a dispatcher step never changes a trace header of an attribute volume;
\* it changes the samples of at most one trace, the trace of the location of the
\* task that takes the step, and leaves every other trace of every volume as
\* it was.
C12_TaskWritesOnlyItsTrace ==
    [][dpc = "running" =>
         /\ vhdr' = vhdr
         /\ \A p \in AttrPaths : \A t \in DOMAIN vols[p] :
              vols'[p][t] # vols[p][t] =>
                  \E n \in InFlight :
                      /\ tstage'[n] = tstage[n] + 1
                      /\ t = LocationIndex(
                               CHOOSE i \in 0..(Len(inlines) - 1) :
                                   At(inlines, i) = Unpack(impl, tasks[n]).iline_number,
                               CHOOSE j \in 0..(Len(crosslines) - 1) :
                                   At(crosslines, j) = Unpack(impl, tasks[n]).xline_number)]_vars

\* two locations of one volume written, the headers as files_from_np left them
C12_Witness ==
    /\ dpc = "running"
    /\ GridSize >= 2
    /\ \E p \in AttrPaths : \E t \in DOMAIN vols[p], u \in DOMAIN vols[p] :
         /\ t # u
         /\ vols[p][t] # ZeroTrace
         /\ vols[p][u] # ZeroTrace
         /\ vhdr[p][t].iline = At(inlines, t \div Len(crosslines))
         /\ vhdr[p][t].xline = At(crosslines, t % Len(crosslines))

\* ------------------------------------------------------------- the inputs
\* C13: no step of Survey.merge changes an angle stack, and once the merge has
\* returned no step of cube_data_organization, files_from_np or the dispatcher
\* changes the merged volume.
C13_InputsReadOnly ==
    [][/\ disk' = disk
       /\ mpc = "returned" => merged' = merged]_vars

\* merge, file construction and a dispatcher run all done
C13_Witness ==
    /\ MergeSucceeded
    /\ fpc = "returned"
    /\ dpc = "returned"
    /\ Len(tasks) >= 2
    /\ \A n \in DOMAIN tstage : tstage[n] = 7
    /\ merged = MergeResult(disk, angle_list)

IsUnscaled(q, c, scalar) ==
    /\ q.den > 0
    /\ IF scalar = 0 THEN q.num = c * q.den
       ELSE IF scalar > 0 THEN q.num = c * scalar * q.den
       ELSE q.num * (0 - scalar) = c * q.den

\* C15: cube_data_organization and attributes_organization, in each of their
\* versions, unscale utmx and utmy by one rule: unchanged for scalar 0, times
\* the scalar when it is positive, divided by its absolute value when negative.
C15_UnscalingRule ==
    (call.fn = "unscale" /\ ret.kind = "returned") =>
        /\ IsUnscaled(ret.row.utmx, call.row.utmx, call.row.scalar)
        /\ IsUnscaled(ret.row.utmy, call.row.utmy, call.row.scalar)

\* a negative scalar at work on two different coordinates
C15_Witness ==
    /\ call.fn = "unscale"
    /\ ret.kind = "returned"
    /\ call.place = "AVOModule.attributes_organization"
    /\ call.row.scalar = 0 - 2
    /\ call.row.utmx = 7
    /\ call.row.utmy = 100
    /\ ret.row.utmx = [num |-> 7, den |-> 2]
    /\ ret.row.utmy = [num |-> 50, den |-> 1]

\* the unscaled utmx of a row whose raw utmx is 100
UnscaledHundred(scalar, value) ==
    (/\ call.fn = "unscale"
     /\ ret.kind = "returned"
     /\ call.row.utmx = 100
     /\ call.row.scalar = scalar) => ret.row.utmx = [num |-> value, den |-> 1]

\* C16 as claimed: a raw coordinate of 100 unscales to 100 for scalar 0, to 200
\* for scalar 2 and to -50 for scalar -2.
C16_Original_UnscaledValues ==
    /\ UnscaledHundred(0, 100)
    /\ UnscaledHundred(2, 200)
    /\ UnscaledHundred(0 - 2, 0 - 50)

\* C16 as amended: a raw coordinate of 100 unscales to 100 for scalar 0, to 200
\* for scalar 2 and to 50 for scalar -2.
C16_UnscaledValues ==
    /\ UnscaledHundred(0, 100)
    /\ UnscaledHundred(2, 200)
    /\ UnscaledHundred(0 - 2, 50)

C16_Witness ==
    /\ call.fn = "unscale"
    /\ ret.kind = "returned"
    /\ call.place = "Survey.cube_data_organization"
    /\ call.row.utmx = 100
    /\ call.row.scalar = 0 - 2
    /\ ret.row.utmx.num = 50

\* a task on the angles 0, 15 and 30 degrees has stored its arrays
RegressionDone ==
    /\ call.fn = "attributes_computation"
    /\ call.angle_list = <<0, 15, 30>>
    /\ ret.kind = "stored"

\* gradient and intercept of every sample are those the gather was built from
RecoversLine ==
    \A row \in 1..MaxNs :
        /\ ret.gradient[row] = Quot(call.m, 1)
        /\ ret.intercept[row] = Quot(call.b + row - 1, 1)

C18_DegenerateAnglesRaise ==
    (/\ call.fn = "attributes_computation"
     /\ ret.kind # "pending"
     /\ \A i \in DOMAIN call.angle_list : call.angle_list[i] = call.angle_list[1])
        => ret.kind = "raised"

\* ------------------------------------------------------ the attribute table
\* sample s of trace t lies inside the three ranges of the call
Selected(t, s) ==
    /\ InRange(vhdr[gradient_path][t].iline, call.inline_range)
    /\ InRange(vhdr[gradient_path][t].xline, call.crossline_range)
    /\ InRange(SampleTime(s), call.time_window)

\* row is the row of sample s of trace t
RowOf(row, t, s) ==
    /\ row.inline = vhdr[gradient_path][t].iline
    /\ row.crossline = vhdr[gradient_path][t].xline
    /\ row.time_slice = SampleTime(s)
    /\ row.gradient = vols[gradient_path][t][s]
    /\ row.intercept = vols[intercept_path][t][s]
    /\ row.rvalue = vols[rvalue_path][t][s]
    /\ row.pvalue = vols[pvalue_path][t][s]
    /\ row.serror = vols[stderr_path][t][s]

\* C19: attributes_organization returns exactly one row for every (trace,
\* sample) whose inline, crossline and sample time lie inside the three ranges,
\* bounds included, and no other row; the row carries the trace's values of the
\* five volumes at that sample.
C19_WindowRows ==
    (call.fn = "attributes_organization" /\ ret.kind # "pending") =>
        /\ ret.kind = "returned"
        /\ \A t \in DOMAIN vhdr[gradient_path], s \in 1..MaxNs :
             Selected(t, s) =>
                 Cardinality({i \in DOMAIN ret.rows : RowOf(ret.rows[i], t, s)}) = 1
        /\ \A i \in DOMAIN ret.rows :
             \E t \in DOMAIN vhdr[gradient_path], s \in 1..MaxNs :
                 Selected(t, s) /\ RowOf(ret.rows[i], t, s)

\* ------------------------------------------------------------ the step check
\* the decimal numeral of n >= 0
RECURSIVE Decimal(_)
Decimal(n) == IF n < 10 THEN <<Digits[n + 1]>> ELSE Decimal(n \div 10) \o <<Digits[(n % 10) + 1]>>

Repeat(c, k) == [i \in 1..k |-> c]

\* text is a way of writing the integer v: its numeral, with leading zeros, a
\* minus sign and surrounding blanks allowed
Denotes(text, v) ==
    \E l \in 0..Len(text), z \in 0..Len(text), r \in 0..Len(text), minus \in 0..1 :
        /\ l + minus + z + Len(Decimal(Abs(v))) + r = Len(text)
        /\ (minus = 1) => v <= 0
        /\ (minus = 0) => v >= 0
        /\ text = Repeat(" ", l) \o Repeat("-", minus) \o Repeat("0", z)
                    \o Decimal(Abs(v)) \o Repeat(" ", r)

\* the integers a text of at most MaxLen characters can denote
StepValues == {v \in (0 - 10 * MaxLen * MaxLen * MaxLen)..(100 * MaxLen * MaxLen) :
                 \A i \in DOMAIN Decimal(Abs(v)) : Decimal(Abs(v))[i] \in StepChars}

\* the integers input_value stands for: none when it is not convertible
IntegerValues(input_value) ==
    IF input_value.type = "int" THEN {input_value.value}
    ELSE {v \in StepValues : Denotes(input_value.text, v)}

\* C20: step_validation returns after a single pass; it returns False when
\* input_value is not convertible to an integer, is 0, or is greater than
\* max_value, and the integer value of the step in every other case.
C20_StepValidation ==
    (call.fn = "step_validation" /\ ret.kind # "pending") =>
        LET vals == IntegerValues(call.input_value)
        IN  /\ ret.kind = "returned"
            /\ ret.passes = 1
            /\ IF vals = {} \/ 0 \in vals \/ \E v \in vals : v > call.max_value
               THEN ret.value = PyFalse
               ELSE \E v \in vals : ret.value = PyInteger(v)

C20_Witness ==
    /\ call.fn = "step_validation"
    /\ ret.kind = "returned"
    /\ call.input_value.type = "str"
    /\ call.input_value.text = <<" ", "2">>
    /\ call.max_value = 2
    /\ ret.value = PyInteger(2)

\* ------------------------------------------------------- the file validations
\* the file behind the path is a standard SEG-Y file: it exists, segyio reads
\* it, and its trace header shows the standard keys
StandardSegy(path) == path.exists /\ path.content = "segy" /\ path.keys = SegyioKeys

\* the call names a file that passes every validation of its version
PassesEveryValidation ==
    /\ StandardSegy(call.path)
    /\ check_file_extension(call.path)
    /\ (call.version = "test") => (call.step >= 1 /\ call.step <= call.path.tracecount)

\* C21: cube_file_validation and cube_data_organization never raise on an
\* unusable input: they return a warning string for every path that is not an
\* existing standard SEG-Y file with an accepted extension, and True
\* (respectively a DataFrame) only for a file that passes every validation.
C21_ValidationNeverRaises ==
    (call.fn \in {"cube_file_validation", "cube_data_organization"} /\ ret.kind # "pending") =>
        /\ ret.kind = "returned"
        /\ ~PassesEveryValidation => ret.value = "warning"
        /\ ret.value \in {"True", "DataFrame"} => PassesEveryValidation

PathIsWells(p) == p.exists /\ p.ext \in {".txt", ".TXT"}

\* C23: after any call of Survey.validation, cube_validation is True exactly
\* when every path of gathers_path exists with a .sgy or .segy extension, and
\* wells_validation is True exactly when every path of wells_path exists with a
\* .txt extension, whatever the flags were before.
C23_FlagsMatchPaths ==
    (call.fn = "validation" /\ ret.kind = "returned") =>
        /\ cube_validation = (\A f \in DOMAIN gathers_path : PathIsCube(gathers_path[f]))
        /\ wells_validation = (\A f \in DOMAIN wells_path : PathIsWells(wells_path[f]))

\* ------------------------------------------------------ the basemap frame
\* C24: whenever cube_validation is True, cube_data_organization returns the
\* basemap DataFrame (the corner rows, the first one repeated), on the first
\* call and on every later call, and a later call leaves inlines, crosslines
\* and basemap_dataframe unchanged.
C24_BasemapReturned ==
    [][(cube_validation = TRUE /\ merged # NoFile /\ CubeDataOrganization) =>
          /\ cdo_ret'.kind = "dataframe"
          /\ cdo_ret'.value = BasemapOf(merged)
          /\ basemap_dataframe # <<>> =>
               UNCHANGED <<inlines, crosslines, basemap_dataframe>>]_vars

\* ------------------------------------------------------ the success message
\* C25: multiprocess_attributes_computation returns its success message only
\* after attributes_computation has run, and its five traces are stored, for
\* every location that index_generator yields.
C25_SuccessAfterEveryTask ==
    (dpc = "returned" /\ dret.kind = "success") =>
        /\ tasks = Generator(impl)
        /\ \A n \in DOMAIN tasks :
             /\ tstage[n] = 7
             /\ \A p \in AttrPaths : wlog[p][Unpack(impl, tasks[n]).index] = <<n>>

\* -------------------------------------------------- the amplitude matrix
\* the matrix the task of the call has built when its loop over angle_list ends
AmpOfCall == AmpFrom(call.angle_list, SyntheticGather(call.m, call.b, MaxNs), 1, <<>>)

\* C26: for every angle_list of length K >= 1, whatever its values, the
\* amplitude matrix of the task has exactly K columns, column k holding the
\* trace of the location for angle_list[k], so that each regression row is as
\* long as the sin^2(angle) vector.
C26_AmpHasKColumns ==
    (call.fn = "attributes_computation" /\ ret.kind # "pending") =>
        /\ Len(AmpOfCall) = Len(call.angle_list)
        /\ \A k \in DOMAIN AmpOfCall :
             AmpOfCall[k] = SyntheticGather(call.m, call.b, MaxNs)[call.angle_list[k]]
        /\ \A row \in 1..MaxNs : Len(AmpRow(AmpOfCall, row)) = Len(Sins(call.angle_list))

\* --------------------------------------------------- order independence
\* the five volumes as files_from_np leaves them
ZeroVolumes == [p \in AttrPaths |-> [t \in DOMAIN vols[p] |-> ZeroTrace]]

\* the five writes of one task, applied to the volumes v
RECURSIVE AfterWrites(_, _, _, _)
AfterWrites(v, plan, index, i) ==
    IF i > Len(plan) THEN v
    ELSE AfterWrites([v EXCEPT ![plan[i].file][index] = plan[i].data], plan, index, i + 1)

\* the tasks of gen run one after another, from task n on
RECURSIVE RunInOrder(_, _, _, _)
RunInOrder(m, gen, n, v) ==
    IF n > Len(gen) THEN v
    ELSE RunInOrder(m, gen, n + 1,
                    AfterWrites(v, WritePlan(m, gen[n]), Unpack(m, gen[n]).index, 1))

\* C27: after a failure-free dispatcher run the five volumes hold, whatever the
\* order and interleaving of the worker tasks, what running the tasks one after
\* another in trace-index order leaves in them.
C27_OrderIndependent ==
    (dpc = "returned" /\ failed = {}) =>
        vols = RunInOrder(impl, Generator(impl), 1, ZeroVolumes)

\* ------------------------------------------------------ the task's handles
TaskEnded == hn # 0 /\ (hpc = 0 \/ hpc > Len(TaskProgram(impl, hn)))

\* the events of the log that concern file
EventsOf(file) == SelectSeq(hlog, LAMBDA e : e.file = file)

\* C28: a worker task never holds more than one output-volume write handle at
\* a time; each of the five handles is opened, used for exactly one trace
\* write and closed before the next one is opened; no handle, read or write,
\* is open when the task returns.
C28_OneWriteHandle ==
    hn # 0 =>
        /\ Cardinality({h \in handles : h.mode = "r+"}) <= 1
        /\ \A p \in AttrPaths :
             \/ EventsOf(p) = <<>>
             \/ EventsOf(p) = <<[ev |-> "open", file |-> p]>> /\ ~TaskEnded
             \/ EventsOf(p) = <<[ev |-> "open", file |-> p], [ev |-> "write", file |-> p]>>
                  /\ ~TaskEnded
             \/ EventsOf(p) = <<[ev |-> "open", file |-> p], [ev |-> "close", file |-> p]>>
                  /\ hpc = 0
             \/ EventsOf(p) = <<[ev |-> "open", file |-> p], [ev |-> "write", file |-> p],
                                [ev |-> "close", file |-> p]>>
        /\ TaskEnded => handles = {}
        /\ (TaskEnded /\ hpc # 0) =>
             \A p \in AttrPaths :
                 EventsOf(p) = <<[ev |-> "open", file |-> p], [ev |-> "write", file |-> p],
                                 [ev |-> "close", file |-> p]>>

\* a task that returned after its five blocks
C28_Witness ==
    /\ TaskEnded
    /\ hpc # 0
    /\ Len(hlog) = 17
    /\ handles = {}
    /\ \A p \in AttrPaths : wlog[p][Unpack(impl, tasks[hn]).index] = <<hn>>

\* ------------------------------------------------------ the shared state
\* the paths and the angle list the constructor call args stands for
AngleListOf(args) ==
    IF args.angle_list = None
    THEN [f \in 1..args.stacks |-> f * args.angle_interval]
    ELSE args.angle_list.value

\* C29: after a second Survey is constructed, index_generator and files_from_np
\* of every AVOModule, the one of the first Survey included, use the merge
\* path, the five output paths and the angle_list of the Survey constructed
\* last.
C29_LastSurveyWins ==
    (call.fn = "shared_state" /\ ret.kind # "pending") =>
        LET last == call.constructions[Len(call.constructions)]
        IN  /\ ret.kind = "returned"
            /\ ret.files = last.paths
            /\ \A n \in DOMAIN ret.yielded :
                 /\ ret.yielded[n].paths = last.paths
                 /\ ret.yielded[n].angle_list = AngleListOf(last)

\* ------------------------------------------------------- the trace number
\* the items index_generator yields for the lines of the survey of the call
GridItems ==
    YieldedFrom(NoSurvey, [inlines |-> Ilines(call.grid), crosslines |-> Xlines(call.grid)], 1, 1, 0)

====
